---- MODULE Spec2Model ----
(***************************************************************************)
(* Metrics aggregation and availability engine of the NOC dashboard.       *)
(*                                                                         *)
(* Two copies of buildDashboardMetrics live in the repository:             *)
(*   - the one with interval merging, impact incidents and reachability    *)
(*     (src/unnamed/part_003), modelled by ProcessProblem / Finish and     *)
(*     checked under Spec;                                                 *)
(*   - the one of src/src/lib/metrics.ts, which sums incident durations    *)
(*     per host inside the incident loop, modelled by ProcessProblemLib /  *)
(*     FinishLib and checked under SpecLib.                                *)
(* buildHostDowntime, mergeIntervals and splitSecondsByShift are also      *)
(* checked as pure functions on arbitrary interval lists (IntervalSpec).   *)
(*                                                                         *)
(* Time is counted in ticks: one tick stands for a block of seconds, so    *)
(* that a day, the shift step and the period stay a few ticks long.  All   *)
(* clocks of the source are integer seconds, and the millisecond scaling   *)
(* of splitSecondsByShift (x 1000, / 1000) cancels out on integers.        *)
(***************************************************************************)
EXTENDS Integers, Sequences, FiniteSets, TLC

(***************************************************************************)
(* Bounds of the model.                                                    *)
(***************************************************************************)
\* number of incidents returned by fetchProblems for one request
MaxProblems == 2
\* length of the requested period (endSeconds - startSeconds), in ticks
PeriodLength == 3
\* IntervalSpec: longest interval list handed to buildHostDowntime
MaxIntervals == 3
\* IntervalSpec: largest configured shift step, in ticks
MaxShiftStep == 3

(***************************************************************************)
(* Configuration (environment of part_003 / metrics.ts), scaled to ticks.  *)
(***************************************************************************)
\* local ticks per day: the range of getMinutesOfDay
TicksPerDay == 4
\* DASHBOARD_BUSINESS_START_HOUR * 60, as a local tick of the day
BUSINESS_START_MINUTES == 1
\* DASHBOARD_BUSINESS_END_HOUR * 60 (24 h: through midnight)
BUSINESS_END_MINUTES == 4
\* DASHBOARD_SHIFT_STEP_MINUTES, the default step of the aggregation
SHIFT_STEP_MINUTES == 2
\* offset of DASHBOARD_TIMEZONE: local tick of day = (t + offset) % day
DEFAULT_TIMEZONE == 3
\* ZABBIX_PROBLEM_LOOKBACK_DAYS: incidents are fetched from this far
\* before the period start
PROBLEM_LOOKBACK_SECONDS == 1
\* isSlowToNormalize: durationMinutes > 60
SLOW_TO_NORMALIZE_MINUTES == 1
\* the maximum severity level ("Desastre")
DISASTER == 5

\* getRangeFromMonth: the period [startSeconds, endSeconds)
startSeconds == PROBLEM_LOOKBACK_SECONDS
endSeconds == startSeconds + PeriodLength
problemFetchStart == IF startSeconds - PROBLEM_LOOKBACK_SECONDS > 0
                     THEN startSeconds - PROBLEM_LOOKBACK_SECONDS ELSE 0

\* SEVERITY_LEVELS: keys 0..5
SEVERITY_LEVELS == 0 .. 5
\* severities drawn for the incidents of a request
SeverityInputs == {2, DISASTER}

(***************************************************************************)
(* The hosts and host groups returned by fetchHosts / fetchHostGroups.     *)
(* h1 and h2 are monitored (status "0"), h3 is disabled (status "1").      *)
(***************************************************************************)
Hosts == {"h1", "h2", "h3"}
Groups == {"g1", "g2"}
HostStatus == [h \in Hosts |-> IF h = "h3" THEN 1 ELSE 0]
HostGroups == [h \in Hosts |-> IF h = "h2" THEN {"g1", "g2"} ELSE {"g1"}]

isActive(h) == HostStatus[h] = 0
activeHostIds == {h \in Hosts : isActive(h)}
activeHosts == Cardinality(activeHostIds)

Max(a, b) == IF a >= b THEN a ELSE b
Min(a, b) == IF a <= b THEN a ELSE b

VARIABLES
  pc,                 \* "loop": inside `for (const problem of problems)`;
                      \* "done": metrics returned; "intervals": IntervalSpec
  shiftStep,          \* SHIFT_STEP_MS, in ticks
  problems,           \* the incidents visited so far, in array order
  severityTotals,     \* global severity histogram
  impactIncidents,    \* global counter of impactful incidents
  hostEventCount,     \* Map hostid -> alerts
  hostOpenCount,      \* Map hostid -> open alerts
  hostIntervals,      \* Map hostid -> Interval[] (unmerged)
  hostDowntime,       \* Map hostid -> {total, business, off}
  groupAccumulators,  \* Map groupid -> GroupAccumulator
  metrics             \* the returned DashboardMetrics

\* the KPI samples of buildDashboardMetrics
VARIABLES
  detectionDurations,   \* number[]: detection samples, in seconds
  responseDurations,    \* number[]: response samples
  resolutionDurations,  \* number[]: resolution samples
  hostDurationSamples,  \* Map hostid -> {detection, response, resolution}
  groupDurationSamples  \* per group: acc.detection, acc.response,
                        \* acc.resolution

kpiVars == <<detectionDurations, responseDurations, resolutionDurations,
             hostDurationSamples, groupDurationSamples>>

aggVars == <<pc, shiftStep, problems, severityTotals, impactIncidents,
             hostEventCount, hostOpenCount, hostIntervals, hostDowntime,
             groupAccumulators, metrics>>

\* the Alert Classifier applied to one trigger
VARIABLES
  triggerItems,  \* ZabbixItem[]: the item keys of the trigger
  triggerText,   \* the description and comments of the trigger
  typeInfo       \* the TriggerTypeInfo returned for it

classVars == <<triggerItems, triggerText, typeInfo>>

\* the reachability downtime of buildDashboardMetrics
VARIABLES
  reachabilityIntervals,    \* Map hostid -> Interval[] (unmerged)
  reachabilityHostDowntime  \* Map hostid -> {total, business, off}

reachVars == <<reachabilityIntervals, reachabilityHostDowntime>>

\* one request to buildDashboardMetrics or buildReachabilityReport
VARIABLES
  request,  \* the arguments of the call and what the backend holds for it
  reqPc,    \* the await the builder is suspended at
  fetches,  \* each fetch of the request: idle, pending, ok or failed
  outcome   \* what the returned promise settled to

reqVars == <<request, reqPc, fetches, outcome>>

\* one call of callZabbix
VARIABLES
  API_TOKEN,       \* whether ZABBIX_API_TOKEN is set
  MAX_RETRIES,     \* from ZABBIX_MAX_RETRIES
  RETRY_DELAY_MS,  \* from ZABBIX_RETRY_DELAY_MS
  callPc,          \* position inside callZabbix
  attempt,         \* the loop variable
  callLog,         \* the attempts made and the waits slept, in order
  callResult       \* what the returned promise settled to

callVars == <<API_TOKEN, MAX_RETRIES, RETRY_DELAY_MS, callPc, attempt,
              callLog, callResult>>

\* one resolution of a month token into a period
VARIABLES
  now,         \* new Date(): the current time, in ticks
  monthToken,  \* the month argument
  periodPc,    \* whether getRangeFromMonth has run
  range        \* what it returned, and for which builder

periodVars == <<now, monthToken, periodPc, range>>

\* the alert list of one reachability report and its page
VARIABLES
  alerts,    \* ReachabilityAlertRecord[]: pushed, then sorted in place
  reportPc,  \* position inside buildReachabilityReport
  report     \* the returned page, total, pages, pageSize and alerts

pageVars == <<alerts, reportPc, report>>

\* one call of buildAvailabilityInsights
VARIABLES
  insightPc,    \* whether the call was made
  insightArgs,  \* its arguments
  insights      \* the topHosts or topAlerts it returned

insightVars == <<insightPc, insightArgs, insights>>

\* one call of fetchProblems against the events the backend holds
VARIABLES
  backend,         \* the problem events of the backend: eventid, clock
  fetchArgs,       \* timeFrom, timeTill and the configured pageSize, maxPages
  fetchPc,         \* position inside fetchProblems
  cursorTimeTill,  \* the time_till of the next page request
  fetchPage,       \* `page`: the pages requested so far
  all,             \* the eventids collected, in order
  requestLog       \* the page requests made: time_till, events returned

fetchVars == <<backend, fetchArgs, fetchPc, cursorTimeTill, fetchPage,
               all, requestLog>>

\* one call of splitSecondsByShift, iteration by iteration
VARIABLES
  splitArgs,  \* startSeconds, endSeconds and the configured SHIFT_STEP_MS
  splitPc,    \* position inside splitSecondsByShift
  splitCursor,  \* `cursor`: the loop cursor
  buckets     \* business and offHours

splitVars == <<splitArgs, splitPc, splitCursor, buckets>>

\* the state of the helpers outside the incident loop
lateVars == <<periodVars, pageVars, insightVars, fetchVars, splitVars>>

\* the state of the calls to the monitoring backend
ioVars == <<reqVars, callVars, lateVars>>

\* the state outside the incident loop's counters and samples
extVars == <<classVars, reachVars, ioVars>>

\* everything but the state of the availability aggregation
nonAggVars == <<kpiVars, extVars>>

vars == <<aggVars, nonAggVars>>

NoTypeInfo == [computed |-> FALSE]

\* no trigger classified yet
ClassInit ==
  /\ triggerItems = << >>
  /\ triggerText = << >>
  /\ typeInfo = NoTypeInfo

\* the reachability maps as created
ReachInit ==
  /\ reachabilityIntervals = [h \in Hosts |-> << >>]
  /\ reachabilityHostDowntime =
       [h \in Hosts |-> [total |-> 0, business |-> 0, off |-> 0]]

FetchNames ==
  {"hosts", "problems", "hostGroups", "hostsByIds", "recoveryEvents",
   "triggers"}

NoOutcome == [kind |-> "pending"]

\* no request made
ReqInit ==
  /\ request = [fn |-> "none"]
  /\ reqPc = "idle"
  /\ fetches = [f \in FetchNames |-> "idle"]
  /\ outcome = NoOutcome

\* callZabbix not called; the environment's defaults
CallInit ==
  /\ API_TOKEN = TRUE
  /\ MAX_RETRIES = 2
  /\ RETRY_DELAY_MS = 1000
  /\ callPc = "idle"
  /\ attempt = 0
  /\ callLog = << >>
  /\ callResult = NoOutcome

\* getRangeFromMonth not called
PeriodInit ==
  /\ now = 0
  /\ monthToken = << >>
  /\ periodPc = "idle"
  /\ range = [fn |-> "none"]

\* no report being built
PageInit ==
  /\ alerts = << >>
  /\ reportPc = "idle"
  /\ report = [page |-> 0]

\* buildAvailabilityInsights not called
InsightInit ==
  /\ insightPc = "idle"
  /\ insightArgs = [windowType |-> "none"]
  /\ insights = << >>

\* fetchProblems not called
FetchInit ==
  /\ backend = {}
  /\ fetchArgs = [timeFrom |-> 0, timeTill |-> 0, pageSize |-> 1,
                  maxPages |-> 1]
  /\ fetchPc = "idle"
  /\ cursorTimeTill = 0
  /\ fetchPage = 0
  /\ all = << >>
  /\ requestLog = << >>

\* splitSecondsByShift not called
SplitInit ==
  /\ splitArgs = [start |-> 0, end |-> 0,
                  step |-> [nan |-> FALSE, val |-> 1]]
  /\ splitPc = "idle"
  /\ splitCursor = [nan |-> FALSE, val |-> 0]
  /\ buckets = [nan |-> FALSE, business |-> 0, off |-> 0]

LateInit == PeriodInit /\ PageInit /\ InsightInit /\ FetchInit /\ SplitInit

IoInit == ReqInit /\ CallInit /\ LateInit

NoSamples == [detection |-> << >>, response |-> << >>, resolution |-> << >>]

\* the KPI sample lists as created, before any incident is visited
KpiInit ==
  /\ detectionDurations = << >>
  /\ responseDurations = << >>
  /\ resolutionDurations = << >>
  /\ hostDurationSamples = [h \in Hosts |-> NoSamples]
  /\ groupDurationSamples = [g \in Groups |-> NoSamples]

(***************************************************************************)
(* Time Window Resolver                                                    *)
(***************************************************************************)
getMinutesOfDay(t) == (t + DEFAULT_TIMEZONE) % TicksPerDay

isBusiness(t) ==
  /\ getMinutesOfDay(t) >= BUSINESS_START_MINUTES
  /\ getMinutesOfDay(t) < BUSINESS_END_MINUTES

\* faulty variant of the loop: the last slice is not cut at `limit`
RECURSIVE SplitLoopWholeSlices(_, _, _, _, _)
SplitLoopWholeSlices(cursor, limit, step, business, offHours) ==
  IF cursor < limit
  THEN IF isBusiness(cursor)
       THEN SplitLoopWholeSlices(cursor + step, limit, step,
                                 business + step, offHours)
       ELSE SplitLoopWholeSlices(cursor + step, limit, step,
                                 business, offHours + step)
  ELSE [business |-> business, off |-> offHours]

\* the while loop of splitSecondsByShift, from `cursor` up to `limit`
RECURSIVE SplitLoop(_, _, _, _, _)
SplitLoop(cursor, limit, step, business, offHours) ==
  IF cursor < limit
  THEN LET next == Min(cursor + step, limit)
           duration == next - cursor
       IN IF isBusiness(cursor)
          THEN SplitLoop(next, limit, step, business + duration, offHours)
          ELSE SplitLoop(next, limit, step, business, offHours + duration)
  ELSE [business |-> business, off |-> offHours]

splitSecondsByShift(startS, endS) ==
  IF endS <= startS
  THEN [business |-> 0, off |-> 0]
  ELSE SplitLoop(startS, endS, shiftStep, 0, 0)

(***************************************************************************)
(* Interval Merger                                                         *)
(***************************************************************************)
\* Array.prototype.sort with (a, b) => a.start - b.start: a stable sort
RECURSIVE InsertByStart(_, _)
InsertByStart(sorted, interval) ==
  IF sorted = << >>
  THEN << interval >>
  ELSE IF sorted[Len(sorted)].start <= interval.start
       THEN Append(sorted, interval)
       ELSE Append(InsertByStart(SubSeq(sorted, 1, Len(sorted) - 1), interval),
                   sorted[Len(sorted)])

RECURSIVE SortByStart(_)
SortByStart(intervals) ==
  IF intervals = << >>
  THEN << >>
  ELSE InsertByStart(SortByStart(SubSeq(intervals, 1, Len(intervals) - 1)),
                     intervals[Len(intervals)])

\* faulty variant of the iteration: an interval that starts exactly at the
\* end of the last merged one is appended instead of merged
MergeStepStrict(merged, interval) ==
  IF merged = << >>
  THEN << interval >>
  ELSE LET last == merged[Len(merged)]
       IN IF interval.start < last.end
          THEN [merged EXCEPT ![Len(merged)].end = Max(last.end, interval.end)]
          ELSE Append(merged, interval)

\* one iteration of the for loop of mergeIntervals
MergeStep(merged, interval) ==
  IF merged = << >>
  THEN << interval >>
  ELSE LET last == merged[Len(merged)]
       IN IF interval.start <= last.end
          THEN [merged EXCEPT ![Len(merged)].end = Max(last.end, interval.end)]
          ELSE Append(merged, interval)

RECURSIVE MergeLoop(_, _)
MergeLoop(merged, rest) ==
  IF rest = << >>
  THEN merged
  ELSE MergeLoop(MergeStep(merged, Head(rest)), Tail(rest))

mergeIntervals(intervals) == MergeLoop(<< >>, SortByStart(intervals))

(***************************************************************************)
(* Availability Aggregator: downtime of one host                           *)
(***************************************************************************)
RECURSIVE DowntimeLoop(_, _)
DowntimeLoop(merged, acc) ==
  IF merged = << >>
  THEN acc
  ELSE LET interval == Head(merged)
           duration == Max(0, interval.end - interval.start)
           split == splitSecondsByShift(interval.start, interval.end)
       IN IF duration = 0
          THEN DowntimeLoop(Tail(merged), acc)
          ELSE DowntimeLoop(Tail(merged),
                            [total |-> acc.total + duration,
                             business |-> acc.business + split.business,
                             off |-> acc.off + split.off])

NoDowntime == [total |-> 0, business |-> 0, off |-> 0]

\* buildHostDowntime; a host without entry reads as {0, 0, 0} at every use
buildHostDowntime(intervalsOf) ==
  [h \in DOMAIN intervalsOf |->
     IF intervalsOf[h] = << >>
     THEN NoDowntime
     ELSE DowntimeLoop(mergeIntervals(intervalsOf[h]), NoDowntime)]

RECURSIVE SumOver(_, _)
SumOver(f, S) ==
  IF S = {} THEN 0
  ELSE LET x == CHOOSE y \in S : TRUE IN f[x] + SumOver(f, S \ {x})

\* sumDowntimeForHosts(downtime, hostIds, key)
sumDowntimeForHosts(downtime, hostIds, key) ==
  SumOver([h \in DOMAIN downtime |-> downtime[h][key]],
          hostIds \cap DOMAIN downtime)

\* ((window - downtime) / window) * 100, or 100 when the window is empty;
\* kept as an exact fraction num / den
Pct(window, downtime) ==
  IF window > 0
  THEN [num |-> (window - downtime) * 100, den |-> window]
  ELSE [num |-> 100, den |-> 1]

(***************************************************************************)
(* The incidents of a request (fetchProblems joined with                   *)
(* fetchRecoveryEvents).  r_eventid = 0 is a still-open incident; otherwise *)
(* r_clock is the clock of recoveryEventMap[r_eventid].                    *)
(***************************************************************************)
ProblemInputs(n) ==
  { [eventid |-> n, clock |-> c, r_eventid |-> r[1], r_clock |-> r[2],
     severity |-> s, hosts |-> hs] :
      c \in problemFetchStart .. endSeconds,
      r \in {<<0, 0>>} \cup ({100 + n} \X (problemFetchStart .. endSeconds + 1)),
      s \in SeverityInputs,
      hs \in (SUBSET Hosts) \ {{}} }

\* a recovery event never precedes the incident it closes
WellFormed(p) == p.r_eventid # 0 => p.r_clock >= p.clock

\* fetchProblems asks for sortfield "clock", sortorder "DESC"
NewestFirst(visited, p) ==
  IF visited = << >> THEN TRUE ELSE p.clock <= visited[Len(visited)].clock

(***************************************************************************)
(* Per-incident values of the loop body of buildDashboardMetrics           *)
(***************************************************************************)
rawClock(p) == p.clock

startsInsideRange(p) == rawClock(p) >= startSeconds /\ rawClock(p) < endSeconds

shouldCountAlert(p) == startsInsideRange(p)

problemStart(p) == Max(rawClock(p), startSeconds)

isOpen(p) == p.r_eventid = 0

problemEnd(p) == IF p.r_eventid # 0 THEN Min(p.r_clock, endSeconds) ELSE endSeconds

durationSeconds(p) == Max(0, problemEnd(p) - problemStart(p))

\* faulty variant: an empty clamped interval passes as an overlap
hasOverlapOrTouch(p) == durationSeconds(p) >= 0

hasOverlap(p) == durationSeconds(p) > 0

shiftDurations(p) ==
  IF hasOverlap(p)
  THEN splitSecondsByShift(problemStart(p), problemEnd(p))
  ELSE [business |-> 0, off |-> 0]

hasBusinessImpact(p) ==
  /\ p.severity = DISASTER
  /\ shouldCountAlert(p)
  /\ shiftDurations(p).business > 0

\* faulty variant: a resolution of exactly the threshold counts as slow
isSlowToNormalizeInclusive(p) ==
  durationSeconds(p) >= SLOW_TO_NORMALIZE_MINUTES

isSlowToNormalize(p) == durationSeconds(p) > SLOW_TO_NORMALIZE_MINUTES

qualifiesForImpact(p) == hasBusinessImpact(p) /\ isSlowToNormalize(p)

(***************************************************************************)
(* Group Report Assembler                                                  *)
(***************************************************************************)
createSeverityCounter == [level \in SEVERITY_LEVELS |-> 0]

\* createGroupAccumulator, then the host-membership loop that runs once
\* before the incident loop
createGroupAccumulator(g) ==
  LET members == {h \in Hosts : g \in HostGroups[h]}
  IN [hostIds |-> members,
      activeHostIds |-> {h \in members : isActive(h)},
      activeHosts |-> Cardinality({h \in members : isActive(h)}),
      inactiveHosts |-> Cardinality({h \in members : ~isActive(h)}),
      severityCounter |-> createSeverityCounter,
      eventIds |-> {},
      openEventIds |-> {},
      eventCount |-> 0,
      openCount |-> 0,
      impactIncidentIds |-> {},
      downtimeTotal |-> 0,
      downtimeBusiness |-> 0]

\* body of `for (const group of memberships)` for one host of the incident
VisitGroup(acc, p) ==
  LET eventKey == p.eventid
      counted ==
        IF shouldCountAlert(p)
        THEN [acc EXCEPT
                !.eventIds = @ \cup {eventKey},
                !.eventCount = IF eventKey \in acc.eventIds THEN @ ELSE @ + 1,
                !.openEventIds = IF isOpen(p) THEN @ \cup {eventKey} ELSE @,
                !.openCount = IF isOpen(p) /\ eventKey \notin acc.openEventIds
                              THEN @ + 1 ELSE @]
        ELSE acc
      impacted ==
        IF qualifiesForImpact(p)
        THEN [counted EXCEPT !.impactIncidentIds = @ \cup {eventKey}]
        ELSE counted
  IN IF shouldCountAlert(p)
     THEN [impacted EXCEPT !.severityCounter[p.severity] = @ + 1]
     ELSE impacted

\* `for (const host of problem.hosts)`, seen from the accumulator of group g
RECURSIVE VisitHosts(_, _, _, _)
VisitHosts(acc, g, p, hostsLeft) ==
  IF hostsLeft = {}
  THEN acc
  ELSE LET h == CHOOSE x \in hostsLeft : TRUE
       IN VisitHosts(IF g \in HostGroups[h] THEN VisitGroup(acc, p) ELSE acc,
                     g, p, hostsLeft \ {h})

(***************************************************************************)
(* buildDashboardMetrics: state after the fetches and the set-up           *)
(***************************************************************************)
NoMetrics == [computed |-> FALSE]

Init ==
  /\ pc = "loop"
  /\ shiftStep = SHIFT_STEP_MINUTES
  /\ problems = << >>
  /\ severityTotals = createSeverityCounter
  /\ impactIncidents = 0
  /\ hostEventCount = [h \in Hosts |-> 0]
  /\ hostOpenCount = [h \in Hosts |-> 0]
  /\ hostIntervals = [h \in Hosts |-> << >>]
  /\ hostDowntime = [h \in Hosts |-> NoDowntime]
  /\ groupAccumulators = [g \in Groups |-> createGroupAccumulator(g)]
  /\ metrics = NoMetrics
  /\ KpiInit
  /\ ClassInit
  /\ ReachInit
  /\ IoInit

\* one iteration of `for (const problem of problems)`
ProcessProblem ==
  /\ pc = "loop"
  /\ Len(problems) < MaxProblems
  /\ \E p \in ProblemInputs(Len(problems) + 1) :
       /\ WellFormed(p)
       /\ NewestFirst(problems, p)
       /\ problems' = Append(problems, p)
       /\ severityTotals' =
            IF shouldCountAlert(p)
            THEN [severityTotals EXCEPT ![p.severity] = @ + 1]
            ELSE severityTotals
       /\ impactIncidents' =
            IF qualifiesForImpact(p) THEN impactIncidents + 1 ELSE impactIncidents
       /\ hostEventCount' =
            [h \in Hosts |->
               IF h \in p.hosts /\ shouldCountAlert(p)
               THEN hostEventCount[h] + 1 ELSE hostEventCount[h]]
       /\ hostOpenCount' =
            [h \in Hosts |->
               IF h \in p.hosts /\ shouldCountAlert(p) /\ isOpen(p)
               THEN hostOpenCount[h] + 1 ELSE hostOpenCount[h]]
       /\ hostIntervals' =
            [h \in Hosts |->
               IF h \in p.hosts /\ hasOverlap(p)
               THEN Append(hostIntervals[h],
                           [start |-> problemStart(p), end |-> problemEnd(p)])
               ELSE hostIntervals[h]]
       /\ groupAccumulators' =
            [g \in Groups |-> VisitHosts(groupAccumulators[g], g, p, p.hosts)]
  /\ UNCHANGED <<pc, shiftStep, hostDowntime, metrics>>
  /\ UNCHANGED nonAggVars

(***************************************************************************)
(* buildDashboardMetrics: after the incident loop                          *)
(***************************************************************************)
\* faulty variant of the fold: inactive member hosts add their downtime
FoldGroupDowntimeAllMembers(acc, downtime) ==
  [acc EXCEPT
     !.downtimeTotal = SumOver([h \in Hosts |-> downtime[h].total],
                               acc.hostIds),
     !.downtimeBusiness = SumOver([h \in Hosts |-> downtime[h].business],
                                  acc.hostIds)]

\* the fold of the host downtime into each group accumulator
FoldGroupDowntime(acc, downtime) ==
  [acc EXCEPT
     !.downtimeTotal = SumOver([h \in Hosts |-> downtime[h].total],
                               acc.activeHostIds),
     !.downtimeBusiness = SumOver([h \in Hosts |-> downtime[h].business],
                                  acc.activeHostIds)]

buildHostMetrics(downtime, eventCount, openCount, totalRangeSeconds, businessSeconds) ==
  [h \in Hosts |->
     [availabilityPct |-> Pct(totalRangeSeconds, downtime[h].total),
      businessAvailabilityPct |-> Pct(businessSeconds, downtime[h].business),
      eventCount |-> eventCount[h],
      openEventCount |-> openCount[h]]]

\* faulty variant: alerts read from the per-visit counters instead of the
\* identity sets
buildGroupSummariesPerVisit(accumulators, totalRangeSeconds, businessSeconds) ==
  [g \in {x \in Groups : accumulators[x].hostIds # {}} |->
     LET acc == accumulators[g]
         totalHostSeconds == totalRangeSeconds * acc.activeHosts
         totalBusinessSeconds == businessSeconds * acc.activeHosts
     IN [hosts |-> acc.activeHosts,
         inactiveHosts |-> acc.inactiveHosts,
         impactIncidents |-> Cardinality(acc.impactIncidentIds),
         severitySummary |-> acc.severityCounter,
         alerts |-> SumOver(acc.severityCounter, SEVERITY_LEVELS),
         openAlerts |-> Cardinality(acc.openEventIds),
         availabilityPct |-> Pct(totalHostSeconds, acc.downtimeTotal),
         businessAvailabilityPct |->
           Pct(totalBusinessSeconds, acc.downtimeBusiness)]]

buildGroupSummaries(accumulators, totalRangeSeconds, businessSeconds) ==
  [g \in {x \in Groups : accumulators[x].hostIds # {}} |->
     LET acc == accumulators[g]
         totalHostSeconds == totalRangeSeconds * acc.activeHosts
         totalBusinessSeconds == businessSeconds * acc.activeHosts
     IN [hosts |-> acc.activeHosts,
         inactiveHosts |-> acc.inactiveHosts,
         impactIncidents |-> Cardinality(acc.impactIncidentIds),
         severitySummary |-> acc.severityCounter,
         alerts |-> Cardinality(acc.eventIds),
         openAlerts |-> Cardinality(acc.openEventIds),
         availabilityPct |-> Pct(totalHostSeconds, acc.downtimeTotal),
         businessAvailabilityPct |->
           Pct(totalBusinessSeconds, acc.downtimeBusiness)]]

Finish ==
  /\ pc = "loop"
  /\ LET downtime == buildHostDowntime(hostIntervals)
         folded == [g \in Groups |->
                      FoldGroupDowntime(groupAccumulators[g], downtime)]
         hostFactor == IF activeHosts # 0 THEN activeHosts ELSE 1
         totalRangeSeconds == endSeconds - startSeconds
         totalHostSeconds == totalRangeSeconds * hostFactor
         totalDowntimeSeconds ==
           sumDowntimeForHosts(downtime, activeHostIds, "total")
         rangeShiftSplit == splitSecondsByShift(startSeconds, endSeconds)
         totalBusinessSeconds == rangeShiftSplit.business
         totalOffSeconds == rangeShiftSplit.off
         businessDowntime ==
           sumDowntimeForHosts(downtime, activeHostIds, "business")
         offDowntime == sumDowntimeForHosts(downtime, activeHostIds, "off")
     IN /\ hostDowntime' = downtime
        /\ groupAccumulators' = folded
        /\ metrics' =
             [computed |-> TRUE,
              availabilityPct |-> Pct(totalHostSeconds, totalDowntimeSeconds),
              businessPct |->
                IF totalBusinessSeconds > 0
                THEN Pct(totalBusinessSeconds * hostFactor, businessDowntime)
                ELSE Pct(0, 0),
              offHoursPct |->
                IF totalOffSeconds > 0
                THEN Pct(totalOffSeconds * hostFactor, offDowntime)
                ELSE Pct(0, 0),
              severitySummary |-> severityTotals,
              hosts |-> buildHostMetrics(downtime, hostEventCount,
                                         hostOpenCount, totalRangeSeconds,
                                         totalBusinessSeconds),
              groupTotals |->
                [alerts |-> SumOver(hostEventCount, Hosts),
                 openAlerts |-> SumOver(hostOpenCount, Hosts),
                 impactIncidents |-> impactIncidents,
                 hostCount |-> activeHosts],
              groupSummaries |->
                buildGroupSummaries(folded, totalRangeSeconds,
                                    totalBusinessSeconds)]
  /\ pc' = "done"
  /\ UNCHANGED <<shiftStep, problems, severityTotals, impactIncidents,
                 hostEventCount, hostOpenCount, hostIntervals>>
  /\ UNCHANGED nonAggVars

Next == ProcessProblem \/ Finish

Spec == Init /\ [][Next]_vars

(***************************************************************************)
(* buildDashboardMetrics of src/src/lib/metrics.ts: downtime is summed     *)
(* inside the incident loop, per host and per group, without merging.      *)
(***************************************************************************)
VisitGroupLib(acc, p) ==
  LET eventKey == p.eventid
      counted ==
        IF shouldCountAlert(p)
        THEN [acc EXCEPT
                !.eventIds = @ \cup {eventKey},
                !.eventCount = IF eventKey \in acc.eventIds THEN @ ELSE @ + 1,
                !.openEventIds = IF isOpen(p) THEN @ \cup {eventKey} ELSE @,
                !.openCount = IF isOpen(p) /\ eventKey \notin acc.openEventIds
                              THEN @ + 1 ELSE @,
                !.severityCounter[p.severity] = @ + 1]
        ELSE acc
  IN IF hasOverlap(p)
     THEN [counted EXCEPT
             !.downtimeTotal = @ + durationSeconds(p),
             !.downtimeBusiness = @ + shiftDurations(p).business]
     ELSE counted

RECURSIVE VisitHostsLib(_, _, _, _)
VisitHostsLib(acc, g, p, hostsLeft) ==
  IF hostsLeft = {}
  THEN acc
  ELSE LET h == CHOOSE x \in hostsLeft : TRUE
       IN VisitHostsLib(IF g \in HostGroups[h] THEN VisitGroupLib(acc, p)
                        ELSE acc,
                        g, p, hostsLeft \ {h})

ProcessProblemLib ==
  /\ pc = "loop"
  /\ Len(problems) < MaxProblems
  /\ \E p \in ProblemInputs(Len(problems) + 1) :
       /\ WellFormed(p)
       /\ NewestFirst(problems, p)
       /\ problems' = Append(problems, p)
       /\ severityTotals' =
            IF shouldCountAlert(p)
            THEN [severityTotals EXCEPT ![p.severity] = @ + 1]
            ELSE severityTotals
       /\ hostEventCount' =
            [h \in Hosts |->
               IF h \in p.hosts /\ shouldCountAlert(p)
               THEN hostEventCount[h] + 1 ELSE hostEventCount[h]]
       /\ hostOpenCount' =
            [h \in Hosts |->
               IF h \in p.hosts /\ shouldCountAlert(p) /\ isOpen(p)
               THEN hostOpenCount[h] + 1 ELSE hostOpenCount[h]]
       /\ hostDowntime' =
            [h \in Hosts |->
               IF h \in p.hosts /\ hasOverlap(p)
               THEN [total |-> hostDowntime[h].total + durationSeconds(p),
                     business |-> hostDowntime[h].business
                                  + shiftDurations(p).business,
                     off |-> hostDowntime[h].off + shiftDurations(p).off]
               ELSE hostDowntime[h]]
       /\ groupAccumulators' =
            [g \in Groups |-> VisitHostsLib(groupAccumulators[g], g, p, p.hosts)]
  /\ UNCHANGED <<pc, shiftStep, impactIncidents, hostIntervals, metrics>>
  /\ UNCHANGED nonAggVars

FinishLib ==
  /\ pc = "loop"
  /\ LET hostCount == Cardinality(Hosts)
         hostFactor == IF hostCount # 0 THEN hostCount ELSE 1
         totalRangeSeconds == endSeconds - startSeconds
         totalHostSeconds == totalRangeSeconds * hostFactor
         totalDowntimeSeconds ==
           SumOver([h \in Hosts |-> hostDowntime[h].total], Hosts)
         rangeShiftSplit == splitSecondsByShift(startSeconds, endSeconds)
         totalBusinessSeconds == rangeShiftSplit.business
         totalOffSeconds == rangeShiftSplit.off
         businessDowntime ==
           SumOver([h \in Hosts |-> hostDowntime[h].business], Hosts)
         offDowntime == SumOver([h \in Hosts |-> hostDowntime[h].off], Hosts)
     IN metrics' =
          [computed |-> TRUE,
           availabilityPct |-> Pct(totalHostSeconds, totalDowntimeSeconds),
           businessPct |->
             IF totalBusinessSeconds > 0
             THEN Pct(totalBusinessSeconds * hostFactor, businessDowntime)
             ELSE Pct(0, 0),
           offHoursPct |->
             IF totalOffSeconds > 0
             THEN Pct(totalOffSeconds * hostFactor, offDowntime)
             ELSE Pct(0, 0),
           severitySummary |-> severityTotals,
           hosts |-> buildHostMetrics(hostDowntime, hostEventCount,
                                      hostOpenCount, totalRangeSeconds,
                                      totalBusinessSeconds),
           groupTotals |->
             [alerts |-> SumOver(hostEventCount, Hosts),
              openAlerts |-> SumOver(hostOpenCount, Hosts),
              impactIncidents |-> 0,
              hostCount |-> activeHosts],
           groupSummaries |->
             buildGroupSummaries(groupAccumulators, totalRangeSeconds,
                                 totalBusinessSeconds)]
  /\ pc' = "done"
  /\ UNCHANGED <<shiftStep, problems, severityTotals, impactIncidents,
                 hostEventCount, hostOpenCount, hostIntervals, hostDowntime,
                 groupAccumulators>>
  /\ UNCHANGED nonAggVars

NextLib == ProcessProblemLib \/ FinishLib

SpecLib == Init /\ [][NextLib]_vars

(***************************************************************************)
(* buildHostDowntime on arbitrary interval lists and shift steps           *)
(***************************************************************************)
\* Interval: {start, end}, clamped to the period
Intervals ==
  { [start |-> a, end |-> b] :
      a \in startSeconds .. endSeconds, b \in startSeconds .. endSeconds }

RECURSIVE IntervalLists(_)
IntervalLists(n) ==
  IF n = 0
  THEN { << >> }
  ELSE LET shorter == IntervalLists(n - 1)
       IN shorter \cup
          { Append(l, i) : l \in {x \in shorter : Len(x) = n - 1},
                           i \in {y \in Intervals : y.end >= y.start} }

InitIntervals ==
  /\ pc = "intervals"
  /\ shiftStep \in 1 .. MaxShiftStep
  /\ \E l \in IntervalLists(MaxIntervals) :
       hostIntervals = [h \in Hosts |-> IF h = "h1" THEN l ELSE << >>]
  /\ problems = << >>
  /\ severityTotals = createSeverityCounter
  /\ impactIncidents = 0
  /\ hostEventCount = [h \in Hosts |-> 0]
  /\ hostOpenCount = [h \in Hosts |-> 0]
  /\ hostDowntime = [h \in Hosts |-> NoDowntime]
  /\ groupAccumulators = [g \in Groups |-> createGroupAccumulator(g)]
  /\ metrics = NoMetrics
  /\ KpiInit
  /\ ClassInit
  /\ ReachInit
  /\ IoInit

\* hostDowntime = buildHostDowntime(hostIntervals)
BuildHostDowntime ==
  /\ pc = "intervals"
  /\ hostDowntime' = buildHostDowntime(hostIntervals)
  /\ pc' = "merged"
  /\ UNCHANGED <<shiftStep, problems, severityTotals, impactIncidents,
                 hostEventCount, hostOpenCount, hostIntervals,
                 groupAccumulators, metrics>>
  /\ UNCHANGED nonAggVars

NextIntervals == BuildHostDowntime

IntervalSpec == InitIntervals /\ [][NextIntervals]_vars

(***************************************************************************)
(* Properties                                                              *)
(***************************************************************************)
\* the incidents visited so far that satisfy P
Visited(P(_)) == {i \in 1 .. Len(problems) : P(problems[i])}

touches(p, g) == \E h \in p.hosts : g \in HostGroups[h]

\* the ticks of the period during which some visited incident listing h
\* is in progress: the union of the clamped intervals of h
CoveredTicks(h) ==
  {t \in startSeconds .. endSeconds - 1 :
     \E i \in 1 .. Len(problems) :
       /\ h \in problems[i].hosts
       /\ Max(problems[i].clock, startSeconds) <= t
       /\ t < (IF problems[i].r_eventid # 0
               THEN Min(problems[i].r_clock, endSeconds) ELSE endSeconds)}

InRange(pct) == pct.num >= 0 /\ pct.num <= 100 * pct.den
IsHundred(pct) == pct.num = 100 * pct.den
SamePct(a, b) == a.num * b.den = b.num * a.den

SortedDisjoint(m) ==
  \A i \in 1 .. Len(m) - 1 :
    /\ m[i].start <= m[i + 1].start
    /\ m[i + 1].start > m[i].end

\* C1: whatever list of intervals (any order, any overlaps, end >= start)
\* mergeIntervals is given, its result is sorted by ascending start and
\* every interval starts strictly after the end of the one before it.
C1_MergedSortedDisjoint ==
  \A h \in Hosts : SortedDisjoint(mergeIntervals(hostIntervals[h]))

\* C1 witness: buildHostDowntime has run on an unsorted list of three
\* intervals, two of which overlap, and two merged intervals remain
C1_Witness ==
  /\ pc = "merged"
  /\ Len(hostIntervals["h1"]) = 3
  /\ hostIntervals["h1"][1].start > hostIntervals["h1"][2].start
  /\ hostIntervals["h1"][3].start < hostIntervals["h1"][2].end
  /\ hostIntervals["h1"][3].start > hostIntervals["h1"][2].start
  /\ Len(mergeIntervals(hostIntervals["h1"])) = 2

\* C2: for every host, the total downtime used for availability is the
\* number of seconds covered by the union of the clamped intervals of the
\* incidents listing that host (overlapping seconds are counted once).
C2_DowntimeIsUnion ==
  pc = "done" =>
    \A h \in Hosts : hostDowntime[h].total = Cardinality(CoveredTicks(h))

\* C2 on the copy that merges: a host with two overlapping incidents whose
\* downtime is the length of the union
C2_MergedCase ==
  /\ pc = "done"
  /\ Len(hostIntervals["h1"]) = 2
  /\ hostIntervals["h1"][1].start < hostIntervals["h1"][2].end
  /\ hostIntervals["h1"][2].start < hostIntervals["h1"][1].end
  /\ hostIntervals["h1"][1] # hostIntervals["h1"][2]

\* C3: for every host and every set of downtime intervals, the totals of
\* buildHostDowntime satisfy business + off = total, for every positive
\* shift step and wherever the intervals start.
C3_BusinessPlusOffIsTotal ==
  pc = "merged" =>
    \A h \in Hosts :
      hostDowntime[h].business + hostDowntime[h].off = hostDowntime[h].total

\* C3 witness: a step of more than one tick, an interval that does not
\* start on the step grid of the period, downtime in both buckets
C3_Witness ==
  /\ pc = "merged"
  /\ shiftStep > 1
  /\ Len(hostIntervals["h1"]) >= 2
  /\ \E i \in 1 .. Len(hostIntervals["h1"]) :
       (hostIntervals["h1"][i].start - startSeconds) % shiftStep # 0
  /\ hostDowntime["h1"].business > 0
  /\ hostDowntime["h1"].off > 0

\* C4: the full-period availability at host, group and global scope lies in
\* [0, 100], and is exactly 100 when the scope has no downtime, no active
\* host or a zero-length window; it is never negative.
C4_AvailabilityInRange ==
  pc = "done" =>
    /\ InRange(metrics.availabilityPct)
    /\ \A h \in Hosts :
         /\ InRange(metrics.hosts[h].availabilityPct)
         /\ CoveredTicks(h) = {} => IsHundred(metrics.hosts[h].availabilityPct)
    /\ \A g \in DOMAIN metrics.groupSummaries :
         /\ InRange(metrics.groupSummaries[g].availabilityPct)
         /\ (\A h \in Hosts : g \in HostGroups[h] /\ isActive(h)
                                => CoveredTicks(h) = {})
              => IsHundred(metrics.groupSummaries[g].availabilityPct)
    /\ (\A h \in activeHostIds : CoveredTicks(h) = {})
         => IsHundred(metrics.availabilityPct)

\* C4 on the copy that merges: a host is down for the whole period under
\* two overlapping incidents
C4_MergedCase ==
  /\ pc = "done"
  /\ Len(problems) = 2
  /\ Cardinality(CoveredTicks("h1")) = PeriodLength
  /\ "h1" \in problems[1].hosts
  /\ "h1" \in problems[2].hosts
  /\ hostDowntime["h1"].total = PeriodLength

\* C5: the business-hours availability at host, group and global scope lies
\* in [0, 100]: the business downtime obtained from the merged intervals
\* never exceeds the business seconds of the period.
C5_BusinessAvailabilityInRange ==
  pc = "done" =>
    /\ InRange(metrics.businessPct)
    /\ \A h \in Hosts :
         /\ InRange(metrics.hosts[h].businessAvailabilityPct)
         /\ hostDowntime[h].business
              <= splitSecondsByShift(startSeconds, endSeconds).business
    /\ \A g \in DOMAIN metrics.groupSummaries :
         InRange(metrics.groupSummaries[g].businessAvailabilityPct)

\* C6: the availability of a group is 100 * (P * n - D) / (P * n) with P
\* the period length, n the number of active hosts of the group and D the
\* summed merged downtime of exactly those hosts; inactive members add
\* neither window seconds nor downtime.
C6_GroupAvailability ==
  pc = "done" =>
    \A g \in DOMAIN metrics.groupSummaries :
      LET members == {h \in Hosts : g \in HostGroups[h] /\ HostStatus[h] = 0}
          n == Cardinality(members)
          P == endSeconds - startSeconds
          D == SumOver([h \in Hosts |-> Cardinality(CoveredTicks(h))], members)
      IN /\ metrics.groupSummaries[g].hosts = n
         /\ IF P * n > 0
            THEN SamePct(metrics.groupSummaries[g].availabilityPct,
                         [num |-> 100 * (P * n - D), den |-> P * n])
            ELSE IsHundred(metrics.groupSummaries[g].availabilityPct)

\* C6 witness: group g1 with two active hosts, one with downtime and one
\* without, and an inactive member that has downtime of its own
C6_Witness ==
  /\ pc = "done"
  /\ CoveredTicks("h1") # {}
  /\ CoveredTicks("h2") = {}
  /\ CoveredTicks("h3") # {}
  /\ CoveredTicks("h3") # CoveredTicks("h1")
  /\ metrics.groupSummaries["g1"].availabilityPct.num
       < 100 * metrics.groupSummaries["g1"].availabilityPct.den

\* the incident visited by the step, when the step is a loop iteration
Visiting == problems'[Len(problems')]

\* C7: an incident whose clamped duration is zero appends no interval to
\* any host's downtime list, yet when its start clock lies inside the
\* period it is counted in the per-host alert counts, in the group alert
\* identity sets and in the severity histogram.
C7_ZeroDurationCounted ==
  [][ ( /\ Len(problems') = Len(problems) + 1
        /\ Max(0, (IF Visiting.r_eventid # 0
                   THEN Min(Visiting.r_clock, endSeconds) ELSE endSeconds)
                  - Max(Visiting.clock, startSeconds)) = 0 )
      => /\ hostIntervals' = hostIntervals
         /\ ( Visiting.clock >= startSeconds /\ Visiting.clock < endSeconds )
            => /\ \A h \in Visiting.hosts :
                    hostEventCount'[h] = hostEventCount[h] + 1
               /\ \A h \in Hosts \ Visiting.hosts :
                    hostEventCount'[h] = hostEventCount[h]
               /\ \A g \in Groups :
                    touches(Visiting, g)
                      => /\ Visiting.eventid \in groupAccumulators'[g].eventIds
                         /\ groupAccumulators'[g].severityCounter[Visiting.severity]
                              > groupAccumulators[g].severityCounter[Visiting.severity]
               /\ severityTotals'[Visiting.severity]
                    = severityTotals[Visiting.severity] + 1
    ]_vars

\* C7 witness: an incident that starts inside the period and is recovered
\* in the same second has been visited; its host has an alert and no interval
C7_Witness ==
  \E i \in 1 .. Len(problems) :
    /\ problems[i].clock >= startSeconds
    /\ problems[i].clock < endSeconds
    /\ problems[i].r_eventid # 0
    /\ problems[i].r_clock = problems[i].clock
    /\ \E h \in problems[i].hosts :
         hostEventCount[h] = 1 /\ hostIntervals[h] = << >>

\* C8: for every group, alerts, openAlerts and impactIncidents equal the
\* number of distinct incidents in the corresponding identity set: an
\* incident listing several hosts of the group is counted once.
C8_GroupCountsDistinct ==
  pc = "done" =>
    \A g \in DOMAIN metrics.groupSummaries :
      LET startedIn(p) ==
            p.clock >= startSeconds /\ p.clock < endSeconds /\ touches(p, g)
          openIn(p) == startedIn(p) /\ p.r_eventid = 0
          impactIn(p) == qualifiesForImpact(p) /\ touches(p, g)
      IN /\ metrics.groupSummaries[g].alerts = Cardinality(Visited(startedIn))
         /\ metrics.groupSummaries[g].openAlerts = Cardinality(Visited(openIn))
         /\ metrics.groupSummaries[g].impactIncidents
              = Cardinality(Visited(impactIn))
         /\ groupAccumulators[g].eventIds
              = {problems[i].eventid : i \in Visited(startedIn)}
         /\ groupAccumulators[g].openEventIds
              = {problems[i].eventid : i \in Visited(openIn)}
         /\ groupAccumulators[g].impactIncidentIds
              = {problems[i].eventid : i \in Visited(impactIn)}

\* C8 witness: an open, impactful incident that lists both h1 and h2 of
\* group g1 is reported once in each count of g1
C8_Witness ==
  /\ pc = "done"
  /\ \E i \in 1 .. Len(problems) :
       /\ {"h1", "h2"} \subseteq problems[i].hosts
       /\ problems[i].r_eventid = 0
       /\ qualifiesForImpact(problems[i])
  /\ metrics.groupSummaries["g1"].alerts = 1
  /\ metrics.groupSummaries["g1"].openAlerts = 1
  /\ metrics.groupSummaries["g1"].impactIncidents = 1

\* C9: in the global and in every group's severity histogram, each incident
\* that starts inside the period increments the counter of its severity
\* exactly once, however many hosts it lists; the counts of a group's
\* histogram sum to the group's number of distinct alerts.
C9_SeverityOncePerIncident ==
  pc = "done" =>
    /\ \A s \in SEVERITY_LEVELS :
         LET ofLevel(p) ==
               p.clock >= startSeconds /\ p.clock < endSeconds /\ p.severity = s
         IN metrics.severitySummary[s] = Cardinality(Visited(ofLevel))
    /\ \A g \in DOMAIN metrics.groupSummaries :
         /\ \A s \in SEVERITY_LEVELS :
              LET ofLevelIn(p) ==
                    /\ p.clock >= startSeconds /\ p.clock < endSeconds
                    /\ p.severity = s /\ touches(p, g)
              IN metrics.groupSummaries[g].severitySummary[s]
                   = Cardinality(Visited(ofLevelIn))
         /\ SumOver(metrics.groupSummaries[g].severitySummary, SEVERITY_LEVELS)
              = metrics.groupSummaries[g].alerts

\* C9, global histogram only: one increment per incident that starts
\* inside the period
C9_GlobalHistogram ==
  pc = "done" =>
    \A s \in SEVERITY_LEVELS :
      LET ofLevel(p) ==
            p.clock >= startSeconds /\ p.clock < endSeconds /\ p.severity = s
      IN metrics.severitySummary[s] = Cardinality(Visited(ofLevel))

\* the shift split of the clamped interval of an incident
BusinessSplit(p) ==
  LET s == Max(p.clock, startSeconds)
      e == IF p.r_eventid # 0 THEN Min(p.r_clock, endSeconds) ELSE endSeconds
  IN IF e > s THEN SplitLoop(s, e, shiftStep, 0, 0).business ELSE 0

InWindowDuration(p) ==
  Max(0, (IF p.r_eventid # 0 THEN Min(p.r_clock, endSeconds) ELSE endSeconds)
         - Max(p.clock, startSeconds))

MaxKpiProblems == 2
\* longest acknowledgment list of an incident
MaxAcks == 2

\* clocks of the acknowledgments of an incident
AckClocks == problemFetchStart .. endSeconds - 1
AckLists == UNION {[1 .. n -> AckClocks] : n \in 0 .. MaxAcks}
KpiHostSets == {{"h1"}, {"h1", "h2"}}

\* an incident with its acknowledges, in the order the backend lists them
KpiInputs(n) ==
  { [eventid |-> n, clock |-> c, r_eventid |-> r[1], r_clock |-> r[2],
     hosts |-> hs, acknowledges |-> acks] :
      c \in problemFetchStart .. endSeconds,
      r \in {<<0, 0>>} \cup ({100 + n} \X (problemFetchStart .. endSeconds + 1)),
      hs \in KpiHostSets,
      acks \in AckLists }

\* an acknowledgment is never older than the incident it acknowledges
AcksFollow(p) ==
  \A i \in 1 .. Len(p.acknowledges) : p.acknowledges[i] >= p.clock

\* `null` of a nullable number; every sample is >= 0
Null == 0 - 1

\* [...(problem.acknowledges ?? [])].sort((a, b) => a.clock - b.clock)
RECURSIVE InsertByClock(_, _)
InsertByClock(sorted, clock) ==
  IF sorted = << >>
  THEN << clock >>
  ELSE IF sorted[Len(sorted)] <= clock
       THEN Append(sorted, clock)
       ELSE Append(InsertByClock(SubSeq(sorted, 1, Len(sorted) - 1), clock),
                   sorted[Len(sorted)])

RECURSIVE SortByClock(_)
SortByClock(acks) ==
  IF acks = << >>
  THEN << >>
  ELSE InsertByClock(SortByClock(SubSeq(acks, 1, Len(acks) - 1)),
                     acks[Len(acks)])

acknowledges(p) == SortByClock(p.acknowledges)

firstAckSeconds(p) ==
  IF Len(acknowledges(p)) > 0 THEN acknowledges(p)[1] ELSE Null

secondAckSeconds(p) ==
  IF Len(acknowledges(p)) > 1 THEN acknowledges(p)[2] ELSE firstAckSeconds(p)

\* let detectionDelta = null; set under `acknowledges.length && hasOverlap`
detectionDelta(p) ==
  IF Len(acknowledges(p)) > 0 /\ hasOverlap(p)
  THEN Max(0, acknowledges(p)[1] - problemStart(p))
  ELSE Null

\* responseDelta = detectionDelta
responseDelta(p) == detectionDelta(p)

resolvedInsideRange(p) ==
  p.r_eventid # 0 /\ p.r_clock >= startSeconds /\ p.r_clock < endSeconds

qualifiesForResolutionMetrics(p) ==
  startsInsideRange(p) /\ resolvedInsideRange(p)

resolutionDeltaForMetrics(p) ==
  IF qualifiesForResolutionMetrics(p)
  THEN Max(0, p.r_clock - rawClock(p))
  ELSE Null

\* values.push(value) under `value !== null`
PushSample(values, value) ==
  IF value = Null THEN values ELSE Append(values, value)

PushSamples(sample, p) ==
  [detection |-> PushSample(sample.detection, detectionDelta(p)),
   response |-> PushSample(sample.response, responseDelta(p)),
   resolution |-> PushSample(sample.resolution, resolutionDeltaForMetrics(p))]

\* the pushes into one group's accumulator while the hosts of p are visited
RECURSIVE VisitHostsKpi(_, _, _, _)
VisitHostsKpi(sample, g, p, hostsLeft) ==
  IF hostsLeft = {}
  THEN sample
  ELSE LET h == CHOOSE x \in hostsLeft : TRUE
       IN VisitHostsKpi(IF g \in HostGroups[h] /\ hasOverlap(p)
                        THEN PushSamples(sample, p) ELSE sample,
                        g, p, hostsLeft \ {h})

RECURSIVE SumSeq(_)
SumSeq(values) ==
  IF values = << >> THEN 0 ELSE Head(values) + SumSeq(Tail(values))

\* safeAverage: the mean as the exact fraction num / den, 0 for no value
safeAverage(values) ==
  IF values = << >>
  THEN [num |-> 0, den |-> 1]
  ELSE [num |-> SumSeq(values), den |-> Len(values)]

\* secondsToMinutes: value / 60
secondsToMinutes(value) == [num |-> value.num, den |-> value.den * 60]

averageMinutes(sample) ==
  [detectionMinutes |-> secondsToMinutes(safeAverage(sample.detection)),
   responseMinutes |-> secondsToMinutes(safeAverage(sample.response)),
   resolutionMinutes |-> secondsToMinutes(safeAverage(sample.resolution))]

InitKpi ==
  /\ pc = "kpi"
  /\ shiftStep = SHIFT_STEP_MINUTES
  /\ problems = << >>
  /\ severityTotals = createSeverityCounter
  /\ impactIncidents = 0
  /\ hostEventCount = [h \in Hosts |-> 0]
  /\ hostOpenCount = [h \in Hosts |-> 0]
  /\ hostIntervals = [h \in Hosts |-> << >>]
  /\ hostDowntime = [h \in Hosts |-> NoDowntime]
  /\ groupAccumulators = [g \in Groups |-> createGroupAccumulator(g)]
  /\ metrics = NoMetrics
  /\ KpiInit
  /\ ClassInit
  /\ ReachInit
  /\ IoInit

\* one iteration of `for (const problem of problems)`: the KPI samples
ProcessKpi ==
  /\ pc = "kpi"
  /\ Len(problems) < MaxKpiProblems
  /\ \E p \in KpiInputs(Len(problems) + 1) :
       /\ WellFormed(p)
       /\ AcksFollow(p)
       /\ NewestFirst(problems, p)
       /\ problems' = Append(problems, p)
       /\ detectionDurations' =
            PushSample(detectionDurations, detectionDelta(p))
       /\ responseDurations' =
            PushSample(responseDurations, responseDelta(p))
       /\ resolutionDurations' =
            PushSample(resolutionDurations, resolutionDeltaForMetrics(p))
       /\ hostDurationSamples' =
            [h \in Hosts |->
               IF h \in p.hosts /\ hasOverlap(p)
               THEN PushSamples(hostDurationSamples[h], p)
               ELSE hostDurationSamples[h]]
       /\ groupDurationSamples' =
            [g \in Groups |->
               VisitHostsKpi(groupDurationSamples[g], g, p, p.hosts)]
  /\ UNCHANGED <<pc, shiftStep, severityTotals, impactIncidents,
                 hostEventCount, hostOpenCount, hostIntervals, hostDowntime,
                 groupAccumulators, metrics>>
  /\ UNCHANGED extVars

\* the averages of the returned metrics, of buildHostMetrics and of
\* buildGroupSummaries
FinishKpi ==
  /\ pc = "kpi"
  /\ metrics' =
       [computed |-> TRUE,
        detectionMinutes |-> secondsToMinutes(safeAverage(detectionDurations)),
        responseMinutes |-> secondsToMinutes(safeAverage(responseDurations)),
        resolutionMinutes |->
          secondsToMinutes(safeAverage(resolutionDurations)),
        hosts |-> [h \in Hosts |-> averageMinutes(hostDurationSamples[h])],
        groupSummaries |->
          [g \in Groups |-> averageMinutes(groupDurationSamples[g])]]
  /\ pc' = "kpiDone"
  /\ UNCHANGED <<shiftStep, problems, severityTotals, impactIncidents,
                 hostEventCount, hostOpenCount, hostIntervals, hostDowntime,
                 groupAccumulators>>
  /\ UNCHANGED nonAggVars

NextKpi == ProcessKpi \/ FinishKpi

KpiSpec == InitKpi /\ [][NextKpi]_vars

(***************************************************************************)
(* Properties of the KPI samples                                           *)
(***************************************************************************)
\* the values val(p) of the visited incidents that satisfy has(p), in order
SamplesOf(has(_), val(_)) ==
  LET sel == SelectSeq(problems, has)
  IN [i \in 1 .. Len(sel) |-> val(sel[i])]

hasAck(p) == Len(p.acknowledges) > 0

\* the k-th smallest acknowledgment clock of p, whatever the list order
EarliestAck(p) ==
  CHOOSE c \in AckClocks :
    /\ \E i \in 1 .. Len(p.acknowledges) : p.acknowledges[i] = c
    /\ \A i \in 1 .. Len(p.acknowledges) : p.acknowledges[i] >= c

SecondEarliestAck(p) ==
  CHOOSE c \in AckClocks :
    \E i, j \in 1 .. Len(p.acknowledges) :
      /\ i # j
      /\ p.acknowledges[i] = EarliestAck(p)
      /\ p.acknowledges[j] = c
      /\ \A k \in 1 .. Len(p.acknowledges) :
           k # i => p.acknowledges[k] >= c

ClampedStart(p) == IF p.clock >= startSeconds THEN p.clock ELSE startSeconds

DetectionOf(p) ==
  IF EarliestAck(p) >= ClampedStart(p)
  THEN EarliestAck(p) - ClampedStart(p) ELSE 0

ResponseOf(p) ==
  IF Len(p.acknowledges) >= 2
  THEN IF SecondEarliestAck(p) >= ClampedStart(p)
       THEN SecondEarliestAck(p) - ClampedStart(p) ELSE 0
  ELSE DetectionOf(p)

\* C11: every incident with at least one acknowledgment has the detection
\* delta max(0, earliest acknowledgment - clamped start), whatever the order
\* of the list, and that value is its sample in the detection average; an
\* incident without acknowledgment has a null detection and adds no sample.
C11_DetectionDelta ==
  /\ \A i \in 1 .. Len(problems) :
       detectionDelta(problems[i]) =
         IF hasAck(problems[i]) THEN DetectionOf(problems[i]) ELSE Null
  /\ detectionDurations = SamplesOf(hasAck, DetectionOf)

\* the same for the incidents that overlap the period only
C11_DetectionOfOverlapping ==
  LET counted(p) == hasAck(p) /\ hasOverlap(p)
  IN /\ \A i \in 1 .. Len(problems) :
          detectionDelta(problems[i]) =
            IF counted(problems[i]) THEN DetectionOf(problems[i]) ELSE Null
     /\ detectionDurations = SamplesOf(counted, DetectionOf)

\* C12: for the incidents that overlap the period, the response sample
\* that enters the global, per-host and per-group response averages is
\* max(0, second-earliest acknowledgment - clamped start) when there are two
\* or more acknowledgments, and the detection value when there is one.
C12_ResponseIsSecondAck ==
  LET counted(p) == hasAck(p) /\ hasOverlap(p)
  IN /\ responseDurations = SamplesOf(counted, ResponseOf)
     /\ \A h \in Hosts :
          LET onHost(p) == counted(p) /\ h \in p.hosts
          IN hostDurationSamples[h].response = SamplesOf(onHost, ResponseOf)
     /\ \A g \in Groups :
          \A k \in 1 .. Len(groupDurationSamples[g].response) :
            \E i \in 1 .. Len(problems) :
              /\ counted(problems[i])
              /\ touches(problems[i], g)
              /\ groupDurationSamples[g].response[k] = ResponseOf(problems[i])

\* C13: every incident that overlaps the period adds the resolution sample
\* max(0, min(recovery clock, period end) - clamped start) to the global and
\* per-host resolution averages; a still-open incident adds the time from
\* its clamped start to the period end.
C13_ResolutionSample ==
  LET ResolutionOf(p) ==
        LET till == IF p.r_eventid # 0 /\ p.r_clock < endSeconds
                    THEN p.r_clock ELSE endSeconds
        IN IF till >= ClampedStart(p) THEN till - ClampedStart(p) ELSE 0
  IN /\ resolutionDurations = SamplesOf(hasOverlap, ResolutionOf)
     /\ \A h \in Hosts :
          LET onHost(p) == hasOverlap(p) /\ h \in p.hosts
          IN hostDurationSamples[h].resolution
               = SamplesOf(onHost, ResolutionOf)

(***************************************************************************)
(* Alert Classifier.  A string is the sequence of its characters, so that  *)
(* String.prototype.includes and toLowerCase are computed, not assumed.    *)
(***************************************************************************)
\* the string literals of deriveAlertType, isAgentAvailabilityCheck,
\* isSnmpTrapSignal and isReachabilitySignal
Lit ==
  [icmpping |->
     <<"i", "c", "m", "p", "p", "i", "n", "g">>,
   icmp |->
     <<"i", "c", "m", "p">>,
   snmp |->
     <<"s", "n", "m", "p">>,
   snmptrap |->
     <<"s", "n", "m", "p", "t", "r", "a", "p">>,
   snmp_trap |->
     <<"s", "n", "m", "p", " ", "t", "r", "a", "p">>,
   agent |->
     <<"a", "g", "e", "n", "t">>,
   agent_ping |->
     <<"a", "g", "e", "n", "t", ".", "p", "i", "n", "g">>,
   zabbix_host_agent_available |->
     <<"z", "a", "b", "b", "i", "x", "[", "h", "o", "s", "t", ",", "a",
       "g", "e", "n", "t", ",", "a", "v", "a", "i", "l", "a", "b",
       "l", "e", "]">>,
   agent_is_not_available |->
     <<"a", "g", "e", "n", "t", " ", "i", "s", " ", "n", "o", "t", " ",
       "a", "v", "a", "i", "l", "a", "b", "l", "e">>,
   zabbix_agent_is_not_available |->
     <<"z", "a", "b", "b", "i", "x", " ", "a", "g", "e", "n", "t", " ",
       "i", "s", " ", "n", "o", "t", " ", "a", "v", "a", "i", "l",
       "a", "b", "l", "e">>,
   agent_not_available |->
     <<"a", "g", "e", "n", "t", " ", "n", "o", "t", " ", "a", "v", "a",
       "i", "l", "a", "b", "l", "e">>,
   agent_unavailable |->
     <<"a", "g", "e", "n", "t", " ", "u", "n", "a", "v", "a", "i", "l",
       "a", "b", "l", "e">>,
   agent_is_unreachable |->
     <<"a", "g", "e", "n", "t", " ", "i", "s", " ", "u", "n", "r", "e",
       "a", "c", "h", "a", "b", "l", "e">>,
   zabbix_agent_is_unreachable |->
     <<"z", "a", "b", "b", "i", "x", " ", "a", "g", "e", "n", "t", " ",
       "i", "s", " ", "u", "n", "r", "e", "a", "c", "h", "a", "b",
       "l", "e">>,
   http |->
     <<"h", "t", "t", "p">>,
   web |->
     <<"w", "e", "b">>,
   net_tcp |->
     <<"n", "e", "t", ".", "t", "c", "p">>,
   tcp |->
     <<"t", "c", "p">>,
   udp |->
     <<"u", "d", "p">>,
   log |->
     <<"l", "o", "g">>,
   system_uptime |->
     <<"s", "y", "s", "t", "e", "m", ".", "u", "p", "t", "i", "m", "e">>,
   uptime |->
     <<"u", "p", "t", "i", "m", "e">>]

\* haystack.includes(needle)
includes(haystack, needle) ==
  \E i \in 1 .. Len(haystack) - Len(needle) + 1 :
    SubSeq(haystack, i, i + Len(needle) - 1) = needle

UpperCase == <<"A", "B", "C", "D", "E", "F", "G", "H", "I", "J", "K", "L", "M",
               "N", "O", "P", "Q", "R", "S", "T", "U", "V", "W", "X", "Y", "Z">>
LowerCase == <<"a", "b", "c", "d", "e", "f", "g", "h", "i", "j", "k", "l", "m",
               "n", "o", "p", "q", "r", "s", "t", "u", "v", "w", "x", "y", "z">>

\* String.prototype.toLowerCase
toLowerCase(str) ==
  [i \in 1 .. Len(str) |->
     IF \E k \in 1 .. Len(UpperCase) : UpperCase[k] = str[i]
     THEN LowerCase[CHOOSE k \in 1 .. Len(UpperCase) : UpperCase[k] = str[i]]
     ELSE str[i]]

\* Array.prototype.join(" ")
RECURSIVE join(_)
join(parts) ==
  IF parts = << >> THEN << >>
  ELSE IF Len(parts) = 1 THEN parts[1]
  ELSE parts[1] \o <<" ">> \o join(Tail(parts))

\* Array.from(new Set(items.map(key_).filter(Boolean))): the non-empty keys,
\* each once, in order of first occurrence
RECURSIVE uniqueKeys(_, _)
uniqueKeys(items, seen) ==
  IF items = << >> THEN seen
  ELSE IF Head(items) = << >> \/ \E i \in 1 .. Len(seen) : seen[i] = Head(items)
       THEN uniqueKeys(Tail(items), seen)
       ELSE uniqueKeys(Tail(items), Append(seen, Head(items)))

\* `${itemKeys.join(" ")} ${fallbackText}`.toLowerCase()
haystackOf(itemKeys, fallbackText) ==
  toLowerCase(join(itemKeys) \o <<" ">> \o fallbackText)

\* item keys drawn for a trigger: agent.ping, icmpping, snmptrap, net.tcp, system.uptime
KeyInputs ==
  {<<"a", "g", "e", "n", "t", ".", "p", "i", "n", "g">>,
   <<"i", "c", "m", "p", "p", "i", "n", "g">>,
   <<"s", "n", "m", "p", "t", "r", "a", "p">>,
   <<"n", "e", "t", ".", "t", "c", "p">>,
   <<"s", "y", "s", "t", "e", "m", ".", "u", "p", "t", "i", "m",
     "e">>}

\* descriptions and comments drawn for a trigger: Zabbix agent is not available; SNMP trap received; ICMP loss; snmp; http; log; uptime; CPU
TextInputs ==
  {<<"Z", "a", "b", "b", "i", "x", " ", "a", "g", "e", "n", "t", " ",
     "i", "s", " ", "n", "o", "t", " ", "a", "v", "a", "i", "l", "a",
     "b", "l", "e">>,
   <<"S", "N", "M", "P", " ", "t", "r", "a", "p", " ", "r", "e", "c",
     "e", "i", "v", "e", "d">>,
   <<"I", "C", "M", "P", " ", "l", "o", "s", "s">>,
   <<"s", "n", "m", "p">>,
   <<"h", "t", "t", "p">>,
   <<"l", "o", "g">>,
   <<"u", "p", "t", "i", "m", "e">>,
   <<"C", "P", "U">>}

\* most items of a trigger
MaxItems == 1

ItemLists == UNION {[1 .. n -> KeyInputs] : n \in 0 .. MaxItems}

\* isAgentAvailabilityCheck (src/src/lib/reachability-report.ts)
isAgentAvailabilityCheck(itemKeys, haystack) ==
  LET keyHit ==
        \E i \in 1 .. Len(itemKeys) :
          LET normalized == toLowerCase(itemKeys[i])
          IN \/ includes(normalized, Lit.agent_ping)
             \/ includes(normalized, Lit.zabbix_host_agent_available)
  IN IF keyHit THEN TRUE
     ELSE \/ includes(haystack, Lit.agent_is_not_available)
          \/ includes(haystack, Lit.zabbix_agent_is_not_available)
          \/ includes(haystack, Lit.agent_not_available)
          \/ includes(haystack, Lit.agent_unavailable)
          \/ includes(haystack, Lit.agent_is_unreachable)
          \/ includes(haystack, Lit.zabbix_agent_is_unreachable)

isSnmpTrapSignal(itemKeys, haystack) ==
  LET keyHit ==
        \E i \in 1 .. Len(itemKeys) :
          includes(toLowerCase(itemKeys[i]), Lit.snmptrap)
  IN IF keyHit THEN TRUE
     ELSE includes(haystack, Lit.snmptrap) \/ includes(haystack, Lit.snmp_trap)

isReachabilitySignal(haystack, isAgentAvailability, isSnmpTrap) ==
  IF isAgentAvailability THEN TRUE
  ELSE IF isSnmpTrap THEN FALSE
  ELSE IF includes(haystack, Lit.icmpping) \/ includes(haystack, Lit.icmp)
  THEN TRUE
  ELSE IF includes(haystack, Lit.snmp) THEN TRUE
  ELSE IF includes(haystack, Lit.system_uptime) \/ includes(haystack, Lit.uptime)
  THEN TRUE
  ELSE FALSE

\* deriveAlertType (src/src/lib/reachability-report.ts)
deriveAlertType(items, fallbackText) ==
  LET itemKeys == uniqueKeys(items, << >>)
      haystack == haystackOf(itemKeys, fallbackText)
      isAgentAvailability == isAgentAvailabilityCheck(itemKeys, haystack)
      isSnmpTrap == isSnmpTrapSignal(itemKeys, haystack)
      isReachability ==
        isReachabilitySignal(haystack, isAgentAvailability, isSnmpTrap)
      alertType ==
        IF includes(haystack, Lit.icmpping) \/ includes(haystack, Lit.icmp)
        THEN "ICMP"
        ELSE IF includes(haystack, Lit.snmp) THEN "SNMP"
        ELSE IF isAgentAvailability THEN "Zabbix agent"
        ELSE IF includes(haystack, Lit.http) \/ includes(haystack, Lit.web)
        THEN "HTTP"
        ELSE IF \/ includes(haystack, Lit.net_tcp)
                \/ includes(haystack, Lit.tcp)
                \/ includes(haystack, Lit.udp)
        THEN "Porta/TCP"
        ELSE IF includes(haystack, Lit.log) THEN "Log"
        ELSE IF includes(haystack, Lit.system_uptime) THEN "Uptime"
        ELSE "Outro"
  IN [computed |-> TRUE, alertType |-> alertType, itemKeys |-> itemKeys,
      isReachability |-> isReachability]

\* buildTriggerTypeMap: [description, comments].filter(Boolean).join(" ")
triggerTextOf(parts) == join(SelectSeq(parts, LAMBDA part : part # << >>))

\* isReachabilityAlertType (src/src/lib/reachability-report.ts), with the
\* default DASHBOARD_REACHABILITY_ALERT_TYPES
REACHABILITY_ALERT_TYPES == {"ICMP", "Zabbix agent", "Uptime", "SNMP"}

isReachabilityAlertTypeInfo(info) ==
  info.isReachability /\ info.alertType \in REACHABILITY_ALERT_TYPES

\* the aggregation state as created, at position `position`
AggInit(position) ==
  /\ pc = position
  /\ shiftStep = SHIFT_STEP_MINUTES
  /\ problems = << >>
  /\ severityTotals = createSeverityCounter
  /\ impactIncidents = 0
  /\ hostEventCount = [h \in Hosts |-> 0]
  /\ hostOpenCount = [h \in Hosts |-> 0]
  /\ hostIntervals = [h \in Hosts |-> << >>]
  /\ hostDowntime = [h \in Hosts |-> NoDowntime]
  /\ groupAccumulators = [g \in Groups |-> createGroupAccumulator(g)]
  /\ metrics = NoMetrics

\* a trigger as fetchTriggersByIds returns it: items, description, comments
InitClass ==
  /\ AggInit("classify")
  /\ KpiInit
  /\ ReachInit
  /\ IoInit
  /\ triggerItems \in ItemLists
  /\ triggerText \in (TextInputs \cup {<< >>}) \X (TextInputs \cup {<< >>})
  /\ typeInfo = NoTypeInfo

\* buildTriggerTypeMap: map.set(trigger.triggerid, deriveAlertType(...))
Classify ==
  /\ pc = "classify"
  /\ typeInfo' = deriveAlertType(triggerItems, triggerTextOf(triggerText))
  /\ pc' = "classified"
  /\ UNCHANGED <<shiftStep, problems, severityTotals, impactIncidents,
                 hostEventCount, hostOpenCount, hostIntervals, hostDowntime,
                 groupAccumulators, metrics>>
  /\ UNCHANGED <<triggerItems, triggerText>>
  /\ UNCHANGED <<kpiVars, reachVars, ioVars>>

NextClass == Classify

ClassSpec == InitClass /\ [][NextClass]_vars

(***************************************************************************)
(* Properties of the Alert Classifier                                      *)
(***************************************************************************)
\* the lower-cased text the classifier reads for the trigger of the state
Haystack ==
  haystackOf(uniqueKeys(triggerItems, << >>), triggerTextOf(triggerText))

HasSnmpTrapSignal ==
  includes(Haystack, Lit.snmptrap) \/ includes(Haystack, Lit.snmp_trap)

HasAgentPhrase ==
  isAgentAvailabilityCheck(uniqueKeys(triggerItems, << >>), Haystack)

\* C14: a trigger whose item keys or text contain an SNMP-trap signal is
\* classified isReachability = FALSE, whatever else it contains, and is not
\* taken into the reachability report.
C14_SnmpTrapNotReachability ==
  (pc = "classified" /\ HasSnmpTrapSignal) =>
    /\ ~typeInfo.isReachability
    /\ ~isReachabilityAlertTypeInfo(typeInfo)

\* the same for the triggers without an agent-availability key or phrase
C14_SnmpTrapWithoutAgent ==
  (pc = "classified" /\ HasSnmpTrapSignal /\ ~HasAgentPhrase) =>
    /\ ~typeInfo.isReachability
    /\ ~isReachabilityAlertTypeInfo(typeInfo)

\* the type of the first rule that matches, in the order Agent, ICMP, SNMP,
\* HTTP, TCP/UDP port, Log, Uptime, else Other
TypeByPriority ==
  IF HasAgentPhrase THEN "Zabbix agent"
  ELSE IF includes(Haystack, Lit.icmp) THEN "ICMP"
  ELSE IF includes(Haystack, Lit.snmp) THEN "SNMP"
  ELSE IF includes(Haystack, Lit.http) \/ includes(Haystack, Lit.web)
  THEN "HTTP"
  ELSE IF includes(Haystack, Lit.tcp) \/ includes(Haystack, Lit.udp)
  THEN "Porta/TCP"
  ELSE IF includes(Haystack, Lit.log) THEN "Log"
  ELSE IF includes(Haystack, Lit.system_uptime) THEN "Uptime"
  ELSE "Outro"

\* C16: the alert type is that of the first matching rule in the order
\* Agent-unavailable, ICMP, SNMP, HTTP, TCP/UDP port, Log, Uptime, else
\* Other; an agent-unavailable input is typed Agent even with "icmp" or
\* "snmp" in it.
C16_TypeByPriority ==
  pc = "classified" => typeInfo.alertType = TypeByPriority

\* the same for the triggers that contain neither "icmp" nor "snmp"
C16_TypeWithoutIcmpSnmp ==
  (/\ pc = "classified"
   /\ ~includes(Haystack, Lit.icmp)
   /\ ~includes(Haystack, Lit.snmp)) =>
    typeInfo.alertType = TypeByPriority

(***************************************************************************)
(* Reachability downtime of buildDashboardMetrics (src/unnamed/part_003),  *)
(* with the classifier of that file.                                       *)
(***************************************************************************)
\* deriveAlertType (src/unnamed/part_003): the type only
deriveAlertTypeMetrics(items, fallbackText) ==
  LET itemKeys == uniqueKeys(items, << >>)
      haystack == haystackOf(itemKeys, fallbackText)
      alertType ==
        IF includes(haystack, Lit.icmpping) \/ includes(haystack, Lit.icmp)
        THEN "ICMP"
        ELSE IF includes(haystack, Lit.snmp) THEN "SNMP"
        ELSE IF includes(haystack, Lit.agent) THEN "Zabbix agent"
        ELSE IF includes(haystack, Lit.http) \/ includes(haystack, Lit.web)
        THEN "HTTP"
        ELSE IF \/ includes(haystack, Lit.net_tcp)
                \/ includes(haystack, Lit.tcp)
                \/ includes(haystack, Lit.udp)
        THEN "Porta/TCP"
        ELSE IF includes(haystack, Lit.log) THEN "Log"
        ELSE IF includes(haystack, Lit.system_uptime) THEN "Uptime"
        ELSE "Outro"
  IN [alertType |-> alertType, itemKeys |-> itemKeys]

\* isReachabilityAlertType (src/unnamed/part_003); both sides are
\* lower-cased in the source, the type names here are the literal ones
isReachabilityAlertType(alertType) == alertType \in REACHABILITY_ALERT_TYPES

\* triggers of the incidents: found in triggerTypeMap or not
TriggerInputs ==
  {[found |-> FALSE, items |-> << >>, text |-> << >>],
   [found |-> TRUE, items |-> << >>, text |-> << >>],
   [found |-> TRUE, text |-> << >>,
    items |-> <<<<"s", "n", "m", "p", "t", "r", "a", "p">>>>],
   [found |-> TRUE, text |-> << >>,
    items |-> <<<<"i", "c", "m", "p", "p", "i", "n", "g">>>>],
   [found |-> TRUE, items |-> << >>,
    text |-> <<"S", "N", "M", "P", " ", "t", "r", "a", "p", " ",
               "r", "e", "c", "e", "i", "v", "e", "d">>]}

\* problem.name
NameInputs ==
  {<<"I", "C", "M", "P", " ", "l", "o", "s", "s">>,
   <<"C", "P", "U">>}

\* number of incidents of one request in the reachability specification
MaxReachProblems == 2

ReachInputs(n) ==
  { [eventid |-> n, clock |-> c, r_eventid |-> r[1], r_clock |-> r[2],
     hosts |-> hs, trigger |-> trigger, name |-> name] :
      c \in problemFetchStart .. endSeconds,
      r \in {<<0, 0>>} \cup ({100 + n} \X (problemFetchStart .. endSeconds + 1)),
      hs \in KpiHostSets,
      trigger \in TriggerInputs,
      name \in NameInputs }

\* isReachabilityProblem: triggerInfo ?? deriveAlertType([], problem.name)
isReachabilityProblem(p) ==
  LET info == IF p.trigger.found
              THEN deriveAlertTypeMetrics(p.trigger.items, p.trigger.text)
              ELSE deriveAlertTypeMetrics(<< >>, p.name)
  IN isReachabilityAlertType(info.alertType)

reachabilityProblem(p) == hasOverlap(p) /\ isReachabilityProblem(p)

InitReach ==
  /\ AggInit("reach")
  /\ KpiInit
  /\ ClassInit
  /\ ReachInit
  /\ IoInit

\* one iteration of `for (const problem of problems)`: the reachability
\* intervals
ProcessReach ==
  /\ pc = "reach"
  /\ Len(problems) < MaxReachProblems
  /\ \E p \in ReachInputs(Len(problems) + 1) :
       /\ WellFormed(p)
       /\ NewestFirst(problems, p)
       /\ problems' = Append(problems, p)
       /\ reachabilityIntervals' =
            [h \in Hosts |->
               IF h \in p.hosts /\ reachabilityProblem(p)
               THEN Append(reachabilityIntervals[h],
                           [start |-> problemStart(p), end |-> problemEnd(p)])
               ELSE reachabilityIntervals[h]]
       /\ hostIntervals' =
            [h \in Hosts |->
               IF h \in p.hosts /\ hasOverlap(p)
               THEN Append(hostIntervals[h],
                           [start |-> problemStart(p), end |-> problemEnd(p)])
               ELSE hostIntervals[h]]
  /\ UNCHANGED <<pc, shiftStep, severityTotals, impactIncidents,
                 hostEventCount, hostOpenCount, hostDowntime,
                 groupAccumulators, metrics>>
  /\ UNCHANGED <<kpiVars, classVars, reachabilityHostDowntime, ioVars>>

\* hostDowntime = buildHostDowntime(hostIntervals),
\* reachabilityHostDowntime = buildHostDowntime(reachabilityIntervals) and
\* the reachability availability at host, group and global scope
FinishReach ==
  /\ pc = "reach"
  /\ LET downtime == buildHostDowntime(reachabilityIntervals)
         hostFactor == IF activeHosts # 0 THEN activeHosts ELSE 1
         totalRangeSeconds == endSeconds - startSeconds
         totalHostSeconds == totalRangeSeconds * hostFactor
         reachabilityDowntimeSeconds ==
           sumDowntimeForHosts(downtime, activeHostIds, "total")
     IN /\ reachabilityHostDowntime' = downtime
        /\ hostDowntime' = buildHostDowntime(hostIntervals)
        /\ metrics' =
             [computed |-> TRUE,
              reachabilityPct |->
                Pct(totalHostSeconds, reachabilityDowntimeSeconds),
              hosts |->
                [h \in Hosts |->
                   [reachabilityPct |->
                      Pct(totalRangeSeconds, downtime[h].total)]],
              groupSummaries |->
                [g \in Groups |->
                   LET acc == groupAccumulators[g]
                   IN [reachabilityPct |->
                         Pct(totalRangeSeconds * acc.activeHosts,
                             SumOver([h \in Hosts |-> downtime[h].total],
                                     acc.activeHostIds))]]]
  /\ pc' = "reachDone"
  /\ UNCHANGED <<shiftStep, problems, severityTotals, impactIncidents,
                 hostEventCount, hostOpenCount, hostIntervals,
                 groupAccumulators>>
  /\ UNCHANGED <<kpiVars, classVars, reachabilityIntervals, ioVars>>

NextReach == ProcessReach \/ FinishReach

ReachSpec == InitReach /\ [][NextReach]_vars

\* the trigger or, without one, the name of p carries an SNMP-trap signal
IsSnmpTrapIncident(p) ==
  LET haystack ==
        IF p.trigger.found
        THEN haystackOf(uniqueKeys(p.trigger.items, << >>), p.trigger.text)
        ELSE haystackOf(<< >>, p.name)
  IN includes(haystack, Lit.snmptrap) \/ includes(haystack, Lit.snmp_trap)

\* C15: an incident whose trigger is an SNMP trap, or whose alert type is
\* not reachability-class, adds no interval to any host's reachability
\* downtime: the reachability intervals of a host are exactly the clamped
\* intervals of the overlapping reachability-class, non-trap incidents
\* that list it.
C15_ReachabilityOnlyFromClass ==
  \A h \in Hosts :
    LET counted(p) ==
          /\ h \in p.hosts
          /\ hasOverlap(p)
          /\ isReachabilityProblem(p)
          /\ ~IsSnmpTrapIncident(p)
        interval(p) == [start |-> problemStart(p), end |-> problemEnd(p)]
    IN reachabilityIntervals[h] = SamplesOf(counted, interval)

\* the same without the exclusion of SNMP traps
C15_ReachabilityByType ==
  \A h \in Hosts :
    LET counted(p) ==
          h \in p.hosts /\ hasOverlap(p) /\ isReachabilityProblem(p)
        interval(p) == [start |-> problemStart(p), end |-> problemEnd(p)]
    IN reachabilityIntervals[h] = SamplesOf(counted, interval)

(***************************************************************************)
(* The request pipeline: getRangeFromMonth, the fetches and the result     *)
(***************************************************************************)

\* a destructured array element that is not there
Undefined == <<"undefined">>

Digits == {"0", "1", "2", "3", "4", "5", "6", "7", "8", "9"}

DigitValue(c) ==
  CASE c = "0" -> 0 [] c = "1" -> 1 [] c = "2" -> 2 [] c = "3" -> 3
    [] c = "4" -> 4 [] c = "5" -> 5 [] c = "6" -> 6 [] c = "7" -> 7
    [] c = "8" -> 8 [] c = "9" -> 9

RECURSIVE DecimalValue(_)
DecimalValue(s) ==
  IF s = << >> THEN 0
  ELSE 10 * DecimalValue(SubSeq(s, 1, Len(s) - 1)) + DigitValue(s[Len(s)])

\* String.prototype.split with a one-character separator
RECURSIVE split(_, _)
split(s, sep) ==
  IF \A i \in 1..Len(s) : s[i] # sep THEN <<s>>
  ELSE LET i == CHOOSE k \in 1..Len(s) :
                  s[k] = sep /\ \A j \in 1..(k - 1) : s[j] # sep
       IN <<SubSeq(s, 1, i - 1)>> \o split(SubSeq(s, i + 1, Len(s)), sep)

\* Number(value) for undefined, the empty string and strings of decimal
\* digits or other characters (the month tokens have no blanks, signs,
\* points or exponents): NaN, 0, the decimal value, NaN
ToNumber(value) ==
  IF value = Undefined THEN [nan |-> TRUE, val |-> 0]
  ELSE IF \A i \in 1..Len(value) : value[i] \in Digits
       THEN [nan |-> FALSE, val |-> DecimalValue(value)]
       ELSE [nan |-> TRUE, val |-> 0]

\* getRangeFromMonth: throws when the year or the month index is NaN;
\* otherwise Date.UTC(year, monthIndex, 1) carries a month index outside
\* 0..11 into the year, and the range ends one month later
getRangeFromMonth(month) ==
  LET parts == split(month, "-")
      yearStr == parts[1]
      monthStr == IF Len(parts) >= 2 THEN parts[2] ELSE Undefined
      year == ToNumber(yearStr)
      monthNumber == ToNumber(monthStr)
      monthIndex == monthNumber.val - 1
  IN IF year.nan \/ monthNumber.nan
     THEN [thrown |-> TRUE]
     ELSE [thrown |-> FALSE,
           startYear |-> year.val + (monthIndex \div 12),
           startMonth |-> (monthIndex % 12) + 1]

\* the month tokens a request is made with
MonthTokens ==
  {
   <<"2", "0", "2", "5", "-", "0", "1">>,  \* "2025-01"
   <<"2", "0", "2", "5", "-", "1", "2">>,  \* "2025-12"
   <<"2", "0", "2", "5", "-", "1", "3">>,  \* "2025-13"
   <<"2", "0", "2", "5", "-", "0", "0">>,  \* "2025-00"
   <<"2", "0", "2", "5", "-">>,  \* "2025-"
   <<"2", "0", "2", "5">>,  \* "2025"
   <<"2", "0", "2", "5", "-", "x", "x">>,  \* "2025-xx"
   <<"a", "b", "c">>}  \* "abc"

\* the host groups hostgroup.get returns: groupid -> name
ZabbixGroups == [g1 |-> "Clientes", g2 |-> "Rede"]

GroupIdInputs == {"undefined", "g1", "g9"}

\* the requests: the builder called, its month, group id and scope, and
\* whether the incidents fetched name hosts to look up, recovery events
\* and triggers (each of these fetches is skipped on an empty id list)
Requests ==
  [fn : {"buildDashboardMetrics", "buildReachabilityReport"},
   month : MonthTokens,
   groupId : GroupIdInputs,
   scope : {"group", "all"},
   hostIds : BOOLEAN,
   eventIds : BOOLEAN,
   triggerIds : BOOLEAN]

isAllScope == request.scope = "all" \/ request.groupId = "all"

\* the fetches awaited one after the other once the first await is over,
\* in the order of the awaits
Stages ==
  IF request.fn = "buildDashboardMetrics"
  THEN <<"hostsByIds", "recoveryEvents", "triggers">>
  ELSE <<"problems", "recoveryEvents", "triggers", "hostsByIds">>

\* whether the stage issues a call to the backend: fetchHostsByIds,
\* fetchRecoveryEvents and buildTriggerTypeMapFromProblems return at once
\* on an empty id list; buildHostGroupNameMap runs in the all scope only
Issues(stage) ==
  CASE stage = "problems" -> TRUE
    [] stage = "hostsByIds" ->
         request.hostIds
           /\ (request.fn = "buildReachabilityReport" => isAllScope)
    [] stage = "recoveryEvents" -> request.eventIds
    [] stage = "triggers" -> request.triggerIds

\* the stages after position k that issue a call
RemainingStages(k) ==
  SelectSeq(SubSeq(Stages, k + 1, Len(Stages)), Issues)

\* the position of a stage in Stages, 0 for the first await
StageIndex(stage) ==
  IF \E k \in 1..Len(Stages) : Stages[k] = stage
  THEN CHOOSE k \in 1..Len(Stages) : Stages[k] = stage
  ELSE 0

\* the returned object: meta.groupId and meta.groupName of the metrics
\* (selectedGroup?.name), the group of the report
Returned ==
  [kind |-> IF request.fn = "buildDashboardMetrics" THEN "metrics"
            ELSE "report",
   groupId |-> request.groupId,
   groupName |-> IF request.groupId \in DOMAIN ZabbixGroups
                 THEN ZabbixGroups[request.groupId] ELSE "undefined"]

Rejected(error) == [kind |-> "error", error |-> error]

\* the code after an await that resolved: issue the next fetch, or build
\* and return the object when none is left
Continue(k) ==
  LET rest == RemainingStages(k)
  IN IF rest = << >>
     THEN /\ reqPc' = "returned"
          /\ outcome' = Returned
          /\ UNCHANGED fetches
     ELSE /\ reqPc' = rest[1]
          /\ fetches' = [fetches EXCEPT ![rest[1]] = "pending"]
          /\ UNCHANGED outcome

\* a request leaves the state of the aggregation and of callZabbix alone
ReqUnchanged ==
  UNCHANGED <<aggVars, kpiVars, classVars, reachVars, callVars, lateVars>>

\* a request arrives
InitReq ==
  /\ AggInit("request")
  /\ KpiInit
  /\ ClassInit
  /\ ReachInit
  /\ CallInit
  /\ LateInit
  /\ request \in Requests
  /\ request.fn = "buildDashboardMetrics" => request.scope = "group"
  /\ reqPc = "start"
  /\ fetches = [f \in FetchNames |-> "idle"]
  /\ outcome = NoOutcome

\* buildDashboardMetrics up to its first await: getRangeFromMonth, then
\* Promise.all([fetchHosts, fetchProblems, fetchHostGroups])
StartMetrics ==
  /\ reqPc = "start"
  /\ request.fn = "buildDashboardMetrics"
  /\ IF getRangeFromMonth(request.month).thrown
     THEN /\ reqPc' = "returned"
          /\ outcome' = Rejected("invalidPeriod")
          /\ UNCHANGED fetches
     ELSE /\ reqPc' = "all"
          /\ fetches' = [f \in FetchNames |->
                           IF f \in {"hosts", "problems", "hostGroups"}
                           THEN "pending" ELSE fetches[f]]
          /\ UNCHANGED outcome
  /\ UNCHANGED request
  /\ ReqUnchanged

\* buildReachabilityReport up to its first await: getRangeFromMonth, the
\* test of the group id, then fetchHostGroups
StartReport ==
  /\ reqPc = "start"
  /\ request.fn = "buildReachabilityReport"
  /\ IF getRangeFromMonth(request.month).thrown
     THEN /\ reqPc' = "returned"
          /\ outcome' = Rejected("invalidPeriod")
          /\ UNCHANGED fetches
     ELSE IF ~isAllScope /\ request.groupId = "undefined"
     THEN /\ reqPc' = "returned"
          /\ outcome' = Rejected("groupNotGiven")
          /\ UNCHANGED fetches
     ELSE /\ reqPc' = "hostGroups"
          /\ fetches' = [fetches EXCEPT !["hostGroups"] = "pending"]
          /\ UNCHANGED outcome
  /\ UNCHANGED request
  /\ ReqUnchanged

\* a pending call of callZabbix settles, with its result or with the error
\* it raised; the calls issued together settle in any order, also after
\* the request was rejected
Settle ==
  /\ \E f \in FetchNames, result \in {"ok", "failed"} :
       /\ fetches[f] = "pending"
       /\ fetches' = [fetches EXCEPT ![f] = result]
  /\ UNCHANGED <<request, reqPc, outcome>>
  /\ ReqUnchanged

\* Promise.allSettled in place of Promise.all: the builder goes on once the
\* three calls settled, whatever they settled to
ResumeAllSettled ==
  /\ reqPc = "all"
  /\ \A f \in {"hosts", "problems", "hostGroups"} :
       fetches[f] \in {"ok", "failed"}
  /\ Continue(0)
  /\ UNCHANGED request
  /\ ReqUnchanged

\* the await of Promise.all: rejected with the first rejection of the
\* three, resolved once the three resolved; no try/catch around it
ResumeAll ==
  /\ reqPc = "all"
  /\ LET three == {"hosts", "problems", "hostGroups"}
     IN IF \E f \in three : fetches[f] = "failed"
        THEN /\ reqPc' = "returned"
             /\ outcome' = Rejected("fetch")
             /\ UNCHANGED fetches
        ELSE /\ \A f \in three : fetches[f] = "ok"
             /\ Continue(0)
  /\ UNCHANGED request
  /\ ReqUnchanged

\* the await of fetchHostGroups in buildReachabilityReport, and the test
\* that the group asked for is among the groups
ResumeGroups ==
  /\ reqPc = "hostGroups"
  /\ fetches["hostGroups"] \in {"ok", "failed"}
  /\ IF fetches["hostGroups"] = "failed"
     THEN /\ reqPc' = "returned"
          /\ outcome' = Rejected("fetch")
          /\ UNCHANGED fetches
     ELSE IF ~isAllScope /\ request.groupId \notin DOMAIN ZabbixGroups
     THEN /\ reqPc' = "returned"
          /\ outcome' = Rejected("groupNotFound")
          /\ UNCHANGED fetches
     ELSE Continue(0)
  /\ UNCHANGED request
  /\ ReqUnchanged

\* the await of one of the fetches made one after the other
ResumeStage ==
  /\ reqPc \in {"problems", "hostsByIds", "recoveryEvents", "triggers"}
  /\ fetches[reqPc] \in {"ok", "failed"}
  /\ IF fetches[reqPc] = "failed"
     THEN /\ reqPc' = "returned"
          /\ outcome' = Rejected("fetch")
          /\ UNCHANGED fetches
     ELSE Continue(StageIndex(reqPc))
  /\ UNCHANGED request
  /\ ReqUnchanged

NextReq ==
  \/ StartMetrics
  \/ StartReport
  \/ Settle
  \/ ResumeAll
  \/ ResumeGroups
  \/ ResumeStage

ReqSpec == InitReq /\ [][NextReq]_vars

(***************************************************************************)
(* Properties of the request pipeline                                      *)
(***************************************************************************)

AnyFetch(state) == \E f \in FetchNames : fetches[f] = state

\* C17: when a fetch of a buildDashboardMetrics request has failed, the
\* request never returns metrics: a returned metrics object means no fetch
\* of the request failed, and once the builder has returned with a failed
\* fetch behind it, what it returned is the error, in every order in which
\* the concurrently issued fetches settle.
C17_FailedFetchFailsRequest ==
  request.fn = "buildDashboardMetrics" =>
    /\ outcome.kind = "metrics" => ~AnyFetch("failed")
    /\ (reqPc = "returned" /\ AnyFetch("failed")) =>
         outcome = Rejected("fetch")

\* a request rejected for a failed fetch while another fetch of the same
\* Promise.all succeeded and the third is still in flight
C17_Witness ==
  /\ request.fn = "buildDashboardMetrics"
  /\ reqPc = "returned"
  /\ outcome = Rejected("fetch")
  /\ fetches["hosts"] = "ok"
  /\ fetches["problems"] = "failed"
  /\ fetches["hostGroups"] = "pending"

AllDigits(s) == s # << >> /\ \A i \in 1..Len(s) : s[i] \in Digits

\* the token names a calendar year-month: a year and a month 1..12
IsCalendarYearMonth(token) ==
  LET parts == split(token, "-")
  IN /\ Len(parts) = 2
     /\ AllDigits(parts[1])
     /\ AllDigits(parts[2])
     /\ DecimalValue(parts[2]) \in 1..12

NoFetchIssued == \A f \in FetchNames : fetches[f] = "idle"

\* C19: a request whose period token is not a calendar year-month is
\* rejected with the invalid-period error, and no fetch has been issued.
C19_InvalidPeriodFailsFast ==
  (reqPc # "start" /\ ~IsCalendarYearMonth(request.month)) =>
    /\ outcome = Rejected("invalidPeriod")
    /\ NoFetchIssued

\* the same for the tokens whose year or month is not a number
C19_NaNPeriodFailsFast ==
  (reqPc # "start" /\ getRangeFromMonth(request.month).thrown) =>
    /\ outcome = Rejected("invalidPeriod")
    /\ NoFetchIssued

\* the request names one host group, and the backend has no such group
UnknownGroupRequested ==
  /\ request.groupId # "undefined"
  /\ ~isAllScope
  /\ request.groupId \notin DOMAIN ZabbixGroups

\* C20: a request for an explicit host group id that is not among the
\* fetched groups returns neither metrics nor a report, and once the
\* groups are fetched and the builder has returned, it returned the
\* group-not-found error.
C20_UnknownGroupFails ==
  UnknownGroupRequested =>
    /\ outcome.kind \notin {"metrics", "report"}
    /\ (reqPc = "returned" /\ ~AnyFetch("failed")
          /\ fetches["hostGroups"] = "ok") =>
         outcome = Rejected("groupNotFound")

\* the same for buildReachabilityReport alone
C20_UnknownGroupFailsReport ==
  request.fn = "buildReachabilityReport" => C20_UnknownGroupFails

(***************************************************************************)
(* callZabbix: the attempts of one call and the waits between them         *)
(***************************************************************************)

RETRYABLE_ERROR_CODES ==
  {"UND_ERR_CONNECT_TIMEOUT", "UND_ERR_HEADERS_TIMEOUT",
   "UND_ERR_BODY_TIMEOUT", "UND_ERR_SOCKET", "UND_ERR_SOCKET_TIMEOUT",
   "ECONNRESET", "ECONNREFUSED", "ETIMEDOUT", "EAI_AGAIN"}

\* the values ZABBIX_MAX_RETRIES and ZABBIX_RETRY_DELAY_MS are given
MaxRetriesInputs == 0..2

RetryDelayInputs == {0, 1000}

\* an error as the chain of objects linked by `cause`, each with its code
\* and errno ("" when the field is absent or not a string)
PlainError == <<[code |-> "", errno |-> ""]>>

\* what one attempt ends in: the result, a response with an error status,
\* a JSON-RPC error, or an error thrown by fetch or response.json()
AttemptOutcomes ==
  {[kind |-> "result", error |-> << >>],
   [kind |-> "httpStatus", error |-> PlainError],
   [kind |-> "jsonRpcError", error |-> PlainError],
   [kind |-> "thrown", error |-> <<[code |-> "ECONNRESET", errno |-> ""]>>],
   [kind |-> "thrown", error |-> <<[code |-> "", errno |-> "ETIMEDOUT"]>>],
   [kind |-> "thrown",
    error |-> <<[code |-> "", errno |-> ""],
                [code |-> "UND_ERR_CONNECT_TIMEOUT", errno |-> ""]>>],
   [kind |-> "thrown", error |-> <<[code |-> "ENOTFOUND", errno |-> ""]>>],
   [kind |-> "thrown",
    error |-> <<[code |-> "ENOTFOUND", errno |-> ""],
                [code |-> "ECONNRESET", errno |-> ""]>>],
   [kind |-> "thrown", error |-> PlainError]}

\* extractErrorCode: the code of the first object of the chain that has a
\* code or an errno; "" for undefined
RECURSIVE extractErrorCode(_)
extractErrorCode(error) ==
  IF error = << >> THEN ""
  ELSE IF error[1].code # "" THEN error[1].code
  ELSE IF error[1].errno # "" THEN error[1].errno
  ELSE extractErrorCode(Tail(error))

\* the test with every error taken as retryable
isRetryableAnyError(error) == TRUE

isRetryableNetworkError(error) ==
  LET code == extractErrorCode(error)
  IN code # "" /\ code \in RETRYABLE_ERROR_CODES

\* the error callZabbix raises for a caught one: buildNetworkError wraps a
\* retryable error, ensureError passes the other on
Raised(error) ==
  IF isRetryableNetworkError(error)
  THEN [kind |-> "error", error |-> "network", cause |-> error]
  ELSE [kind |-> "error", error |-> "passedOn", cause |-> error]

CallUnchanged ==
  UNCHANGED <<aggVars, kpiVars, classVars, reachVars, reqVars, lateVars>>

\* a call is about to be made, under some configuration
InitCall ==
  /\ AggInit("call")
  /\ KpiInit
  /\ ClassInit
  /\ ReachInit
  /\ ReqInit
  /\ LateInit
  /\ API_TOKEN \in BOOLEAN
  /\ MAX_RETRIES \in MaxRetriesInputs
  /\ RETRY_DELAY_MS \in RetryDelayInputs
  /\ callPc = "start"
  /\ attempt = 0
  /\ callLog = << >>
  /\ callResult = NoOutcome

\* the test of the token and the entry into the loop
StartCall ==
  /\ callPc = "start"
  /\ IF ~API_TOKEN
     THEN /\ callPc' = "done"
          /\ callResult' = [kind |-> "error", error |-> "noToken",
                            cause |-> << >>]
     ELSE /\ callPc' = "fetch"
          /\ UNCHANGED callResult
  /\ UNCHANGED <<API_TOKEN, MAX_RETRIES, RETRY_DELAY_MS, attempt, callLog>>
  /\ CallUnchanged

\* one iteration of `for (attempt = 0; attempt <= MAX_RETRIES; attempt++)`
\* up to its return, its throw or its await of wait(delayMs)
Attempt ==
  /\ callPc = "fetch"
  /\ IF attempt > MAX_RETRIES
     THEN /\ callPc' = "done"
          /\ callResult' = [kind |-> "error", error |-> "unexpected",
                            cause |-> << >>]
          /\ UNCHANGED <<attempt, callLog>>
     ELSE \E o \in AttemptOutcomes :
            /\ callLog' = Append(callLog, [ev |-> "attempt", outcome |-> o,
                                           ms |-> 0])
            /\ IF o.kind = "result"
               THEN /\ callPc' = "done"
                    /\ callResult' = [kind |-> "result"]
                    /\ UNCHANGED attempt
               ELSE LET retryable == isRetryableNetworkError(o.error)
                        lastAttempt == attempt = MAX_RETRIES
                        delayMs == RETRY_DELAY_MS * (attempt + 1)
                    IN IF ~retryable \/ lastAttempt
                       THEN /\ callPc' = "done"
                            /\ callResult' = Raised(o.error)
                            /\ UNCHANGED attempt
                       ELSE IF delayMs > 0
                       THEN /\ callPc' = "wait"
                            /\ UNCHANGED <<attempt, callResult>>
                       ELSE /\ callPc' = "fetch"
                            /\ attempt' = attempt + 1
                            /\ UNCHANGED callResult
  /\ UNCHANGED <<API_TOKEN, MAX_RETRIES, RETRY_DELAY_MS>>
  /\ CallUnchanged

\* the timer of wait(delayMs) fires; the loop goes on with attempt++
Waited ==
  /\ callPc = "wait"
  /\ callLog' = Append(callLog, [ev |-> "wait", outcome |-> << >>,
                                 ms |-> RETRY_DELAY_MS * (attempt + 1)])
  /\ attempt' = attempt + 1
  /\ callPc' = "fetch"
  /\ UNCHANGED <<API_TOKEN, MAX_RETRIES, RETRY_DELAY_MS, callResult>>
  /\ CallUnchanged

NextCall == StartCall \/ Attempt \/ Waited

CallSpec == InitCall /\ [][NextCall]_vars

(***************************************************************************)
(* Properties of callZabbix                                                *)
(***************************************************************************)

AttemptIndexes == {i \in 1..Len(callLog) : callLog[i].ev = "attempt"}

\* the number of attempts logged before position i
AttemptsBefore(i) == Cardinality({j \in AttemptIndexes : j < i})

\* the last attempt logged before position i (i is not the first attempt)
PreviousAttempt(i) ==
  callLog[CHOOSE j \in AttemptIndexes :
            j < i /\ \A k \in AttemptIndexes : k < i => k <= j]

\* the milliseconds waited between the previous attempt and position i
WaitedBefore(i) ==
  IF i > 1 /\ callLog[i - 1].ev = "wait" THEN callLog[i - 1].ms ELSE 0

HasRetryableCode(o) ==
  o.kind # "result" /\ extractErrorCode(o.error) \in RETRYABLE_ERROR_CODES

\* C18: one call makes at most MAX_RETRIES + 1 attempts; every attempt but
\* the first follows a failed attempt whose error code is in the retryable
\* set and a wait of RETRY_DELAY_MS times the number of attempts made
\* before it; an attempt that fails with another error (error status,
\* JSON-RPC error, other code) is the last one, and its error is raised.
C18_BoundedRetries ==
  /\ Cardinality(AttemptIndexes) <= MAX_RETRIES + 1
  /\ \A i \in AttemptIndexes :
       AttemptsBefore(i) > 0 =>
         /\ HasRetryableCode(PreviousAttempt(i).outcome)
         /\ WaitedBefore(i) = RETRY_DELAY_MS * AttemptsBefore(i)
  /\ \A i \in AttemptIndexes :
       (callLog[i].outcome.kind # "result"
          /\ ~HasRetryableCode(callLog[i].outcome)) =>
         /\ i = Len(callLog)
         /\ callPc = "done"
         /\ callResult = [kind |-> "error", error |-> "passedOn",
                          cause |-> callLog[i].outcome.error]

\* the retries used up: three attempts, waits of one and two delays
\* between them, the last retryable failure raised as a network error
C18_Witness ==
  /\ MAX_RETRIES = 2
  /\ RETRY_DELAY_MS = 1000
  /\ Len(callLog) = 5
  /\ callLog[2].ms = 1000
  /\ callLog[4].ms = 2000
  /\ HasRetryableCode(callLog[5].outcome)
  /\ callResult.kind = "error"
  /\ callResult.error = "network"

(***************************************************************************)
(* The period of a month token and the current time                        *)
(***************************************************************************)

\* the length of a month on the scaled time line, in days
DaysPerMonth == 2

MonthTicks == DaysPerMonth * TicksPerDay

\* the year whose January starts at tick 0 (Date.UTC counts from 1970)
EpochYear == 2025

\* Date.UTC(year, monthIndex, 1).getTime(): months before the origin are
\* negative, a month index outside 0..11 carries into the year
DateUTC(year, monthIndex) ==
  ((year - EpochYear) * 12 + monthIndex) * MonthTicks

DigitChars == <<"0", "1", "2", "3", "4", "5", "6", "7", "8", "9">>

\* a number as `width` decimal digits, zero-padded
RECURSIVE Pad(_, _)
Pad(n, width) ==
  IF width = 0 THEN << >>
  ELSE Pad(n \div 10, width - 1) \o <<DigitChars[(n % 10) + 1]>>

\* formatInTimeZone(date, DEFAULT_TIMEZONE, "yyyy-MM"): the local time is
\* TicksPerDay - DEFAULT_TIMEZONE ticks behind UTC
formatYearMonth(date) ==
  LET local == date - (TicksPerDay - DEFAULT_TIMEZONE)
      months == EpochYear * 12 + (local \div MonthTicks)
  IN Pad(months \div 12, 4) \o <<"-">> \o Pad((months % 12) + 1, 2)

\* getRangeFromMonth of part_003 and of metrics.ts, in ticks: the month
\* from its first instant to the first instant of the next month
getRangeFromMonthMetrics(month) ==
  LET parts == split(month, "-")
      year == ToNumber(parts[1])
      monthNumber ==
        ToNumber(IF Len(parts) >= 2 THEN parts[2] ELSE Undefined)
      monthIndex == monthNumber.val - 1
  IN IF year.nan \/ monthNumber.nan
     THEN [fn |-> "buildDashboardMetrics", thrown |-> TRUE,
           startSeconds |-> 0, endSeconds |-> 0]
     ELSE [fn |-> "buildDashboardMetrics", thrown |-> FALSE,
           startSeconds |-> DateUTC(year.val, monthIndex),
           endSeconds |-> DateUTC(year.val, monthIndex + 1)]

\* getRangeFromMonth of reachability-report.ts: the end is min(endDate,
\* now) when `${yearStr}-${monthStr}` is the text of the current month
getRangeFromMonthReport(month, date) ==
  LET parts == split(month, "-")
      yearStr == parts[1]
      monthStr == IF Len(parts) >= 2 THEN parts[2] ELSE Undefined
      year == ToNumber(yearStr)
      monthNumber == ToNumber(monthStr)
      monthIndex == monthNumber.val - 1
      endDate == DateUTC(year.val, monthIndex + 1)
      currentMonth == formatYearMonth(date)
      isCurrentMonth == (yearStr \o <<"-">> \o monthStr) = currentMonth
      effectiveEndMs == IF isCurrentMonth THEN Min(endDate, date)
                        ELSE endDate
  IN IF year.nan \/ monthNumber.nan
     THEN [fn |-> "buildReachabilityReport", thrown |-> TRUE,
           startSeconds |-> 0, endSeconds |-> 0]
     ELSE [fn |-> "buildReachabilityReport", thrown |-> FALSE,
           startSeconds |-> DateUTC(year.val, monthIndex),
           endSeconds |-> effectiveEndMs]

\* the month tokens the period is resolved for
PeriodTokens ==
  {<<"2", "0", "2", "5", "-", "0", "1">>,  \* "2025-01"
   <<"2", "0", "2", "5", "-", "1">>,       \* "2025-1"
   <<"2", "0", "2", "5", "-", "0", "2">>,  \* "2025-02"
   <<"2", "0", "2", "4", "-", "1", "2">>,  \* "2024-12"
   <<"2", "0", "2", "5", "-", "x", "x">>}  \* "2025-xx"

\* the current times: from the first instant of January 2025 (local time
\* still in December 2024) to the first instant of March 2025
NowInputs == 0 .. (2 * MonthTicks)

InitPeriod ==
  /\ AggInit("period")
  /\ KpiInit
  /\ ClassInit
  /\ ReachInit
  /\ ReqInit
  /\ CallInit
  /\ PageInit
  /\ InsightInit
  /\ FetchInit
  /\ SplitInit
  /\ now \in NowInputs
  /\ monthToken \in PeriodTokens
  /\ periodPc = "resolve"
  /\ range = [fn |-> "none"]

PeriodUnchanged ==
  UNCHANGED <<aggVars, kpiVars, classVars, reachVars, reqVars, callVars,
              pageVars, insightVars, fetchVars,
              splitVars>>

\* buildDashboardMetrics resolves its period
ResolveMetrics ==
  /\ periodPc = "resolve"
  /\ range' = getRangeFromMonthMetrics(monthToken)
  /\ periodPc' = "resolved"
  /\ UNCHANGED <<now, monthToken>>
  /\ PeriodUnchanged

\* buildReachabilityReport resolves its period
ResolveReport ==
  /\ periodPc = "resolve"
  /\ range' = getRangeFromMonthReport(monthToken, now)
  /\ periodPc' = "resolved"
  /\ UNCHANGED <<now, monthToken>>
  /\ PeriodUnchanged

NextPeriod == ResolveMetrics \/ ResolveReport

PeriodSpec == InitPeriod /\ [][NextPeriod]_vars

\* the period resolved is the month the current time lies in, in the
\* configured timezone
RequestedCurrentMonth ==
  /\ periodPc = "resolved"
  /\ ~range.thrown
  /\ LET parts == split(monthToken, "-")
     IN Pad(ToNumber(parts[1]).val, 4) \o <<"-">>
          \o Pad(ToNumber(parts[2]).val, 2) = formatYearMonth(now)

\* C21: when the requested month is the current month, the resolved
\* period end is min(theoretical month end, now), for buildDashboardMetrics
\* and for buildReachabilityReport, so the window never extends past now.
C21_CurrentMonthEndsNow ==
  RequestedCurrentMonth =>
    /\ range.endSeconds = Min(range.startSeconds + MonthTicks, now)
    /\ range.endSeconds <= now

\* the same for buildReachabilityReport and a token that is the text of
\* the current month
C21_ReportEndsNow ==
  (RequestedCurrentMonth /\ range.fn = "buildReachabilityReport"
     /\ monthToken = formatYearMonth(now)) =>
    /\ range.endSeconds = Min(range.startSeconds + MonthTicks, now)
    /\ range.endSeconds <= now

(***************************************************************************)
(* The alert list of the reachability report: sort and pagination          *)
(***************************************************************************)

\* the longest alert list
MaxAlerts == 3

\* the in-window downtime of an alert, in seconds (it is positive: an
\* incident with windowSeconds <= 0 is skipped), and its clamped start
AlertInputs(n) ==
  [eventId : {n}, windowSeconds : 1..2,
   openedAt : startSeconds..(startSeconds + 2)]

\* the page sizes and page numbers asked for
PageSizeInputs == (0 - 1)..(MaxAlerts + 1)

PageInputs == (0 - 1)..(MaxAlerts + 2)

\* the comparator of alerts.sort with the tie-break on the older start
compareAlertsOldestFirst(a, b) ==
  IF b.windowSeconds - a.windowSeconds # 0
  THEN b.windowSeconds - a.windowSeconds
  ELSE a.openedAt - b.openedAt

\* the comparator of alerts.sort: negative when a comes first
compareAlerts(a, b) ==
  IF b.windowSeconds - a.windowSeconds # 0
  THEN b.windowSeconds - a.windowSeconds
  ELSE b.openedAt - a.openedAt

\* Array.prototype.sort with compareAlerts: a stable sort
RECURSIVE InsertAlert(_, _)
InsertAlert(sorted, alert) ==
  IF sorted = << >> THEN <<alert>>
  ELSE IF compareAlerts(alert, Head(sorted)) < 0
       THEN <<alert>> \o sorted
       ELSE <<Head(sorted)>> \o InsertAlert(Tail(sorted), alert)

RECURSIVE SortAlerts(_)
SortAlerts(list) ==
  IF list = << >> THEN << >>
  ELSE InsertAlert(SortAlerts(SubSeq(list, 1, Len(list) - 1)),
                   list[Len(list)])

\* Math.ceil(a / b) for a >= 0 and b >= 1
Ceil(a, b) == (a + b - 1) \div b

\* the slice with its end index included
sliceInclusive(list, from, to) ==
  SubSeq(list, from + 1, Min(to + 1, Len(list)))

\* Array.prototype.slice(from, to) with 0 <= from
slice(list, from, to) == SubSeq(list, from + 1, Min(to, Len(list)))

\* the page with its start on the requested page, not the clamped one
paginateUnclamped(list, page, pageSize) ==
  LET total == Len(list)
      safePageSize == Max(1, pageSize)
      pages == Max(1, Ceil(total, safePageSize))
      safePage == Min(Max(1, page), pages)
      startIndex == (Max(1, page) - 1) * safePageSize
  IN [page |-> safePage, pageSize |-> safePageSize, total |-> total,
      pages |-> pages,
      alerts |-> slice(list, startIndex, startIndex + safePageSize)]

\* total, safePageSize, pages, safePage, startIndex and pageItems of
\* buildReachabilityReport
paginate(list, page, pageSize) ==
  LET total == Len(list)
      safePageSize == Max(1, pageSize)
      pages == Max(1, Ceil(total, safePageSize))
      safePage == Min(Max(1, page), pages)
      startIndex == (safePage - 1) * safePageSize
  IN [page |-> safePage, pageSize |-> safePageSize, total |-> total,
      pages |-> pages,
      alerts |-> slice(list, startIndex, startIndex + safePageSize)]

InitPage ==
  /\ AggInit("report")
  /\ KpiInit
  /\ ClassInit
  /\ ReachInit
  /\ ReqInit
  /\ CallInit
  /\ PeriodInit
  /\ InsightInit
  /\ FetchInit
  /\ SplitInit
  /\ alerts = << >>
  /\ reportPc = "collect"
  /\ report = [page |-> 0]

PageUnchanged ==
  UNCHANGED <<aggVars, kpiVars, classVars, reachVars, reqVars, callVars,
              periodVars, insightVars, fetchVars,
              splitVars>>

\* one iteration of `for (const problem of problems)` that reaches
\* alerts.push
PushAlert ==
  /\ reportPc = "collect"
  /\ Len(alerts) < MaxAlerts
  /\ \E a \in AlertInputs(Len(alerts) + 1) : alerts' = Append(alerts, a)
  /\ UNCHANGED <<reportPc, report>>
  /\ PageUnchanged

\* alerts.sort(...) after the loop
SortReport ==
  /\ reportPc = "collect"
  /\ alerts' = SortAlerts(alerts)
  /\ reportPc' = "sorted"
  /\ UNCHANGED report
  /\ PageUnchanged

\* the pagination and the return, for the page and page size asked for
ReturnReport ==
  /\ reportPc = "sorted"
  /\ \E page \in PageInputs, pageSize \in PageSizeInputs :
       report' = [asked |-> [page |-> page, pageSize |-> pageSize],
                  returned |-> paginate(alerts, page, pageSize)]
  /\ reportPc' = "returned"
  /\ UNCHANGED alerts
  /\ PageUnchanged

NextPage == PushAlert \/ SortReport \/ ReturnReport

PageSpec == InitPage /\ [][NextPage]_vars

(***************************************************************************)
(* Properties of the report's sort and pagination                          *)
(***************************************************************************)

\* the slices of pages 1..n for one page size, one after the other
RECURSIVE PagesConcatenated(_, _, _)
PagesConcatenated(list, n, pageSize) ==
  IF n = 0 THEN << >>
  ELSE PagesConcatenated(list, n - 1, pageSize)
         \o paginate(list, n, pageSize).alerts

\* C22: for the sorted alert list and every page size >= 1, the slices
\* returned for page 1, 2, ..., pages, concatenated in that order, are
\* the full sorted list.
C22_PagesPartitionList ==
  reportPc \in {"sorted", "returned"} =>
    \A pageSize \in 1..(MaxAlerts + 1) :
      PagesConcatenated(alerts, paginate(alerts, 1, pageSize).pages,
                        pageSize) = alerts

\* a sorted list of three alerts returned in pages of two
C22_Witness ==
  /\ reportPc = "returned"
  /\ Len(alerts) = 3
  /\ report.asked = [page |-> 2, pageSize |-> 2]
  /\ report.returned.alerts = <<alerts[3]>>

\* C23: for every total, page size and page number asked for, the report
\* gives pages = max(1, ceil(total / pageSize)) for the page size it
\* reports (the one asked for, raised to 1), a page number clamped into
\* 1..pages, and the slice of the list that belongs to that page.
C23_PageClamped ==
  reportPc = "returned" =>
    LET r == report.returned
        page == report.asked.page
    IN /\ r.total = Len(alerts)
       /\ r.pageSize = Max(1, report.asked.pageSize)
       /\ r.pages = Max(1, Ceil(r.total, r.pageSize))
       /\ r.page = (IF page < 1 THEN 1 ELSE IF page > r.pages THEN r.pages
                    ELSE page)
       /\ r.alerts = [i \in 1..Len(r.alerts) |->
                        alerts[(r.page - 1) * r.pageSize + i]]
       /\ Len(r.alerts) =
            Max(0, Min(r.pageSize, r.total - (r.page - 1) * r.pageSize))

\* a page beyond the last one asked for: the last page is returned
C23_Witness ==
  /\ reportPc = "returned"
  /\ Len(alerts) = 3
  /\ report.asked = [page |-> 5, pageSize |-> 2]
  /\ report.returned.page = 2
  /\ report.returned.alerts = <<alerts[3]>>

\* C24: in the full alert list of the report, of two adjacent alerts the
\* earlier one has the larger or equal in-window downtime, and with equal
\* downtime the more recent or equal start.
C24_SortedByDowntime ==
  reportPc \in {"sorted", "returned"} =>
    \A i \in 1..(Len(alerts) - 1) :
      /\ alerts[i].windowSeconds >= alerts[i + 1].windowSeconds
      /\ alerts[i].windowSeconds = alerts[i + 1].windowSeconds =>
           alerts[i].openedAt >= alerts[i + 1].openedAt

\* alerts pushed in the opposite order, with a tie on the downtime
C24_Witness ==
  /\ reportPc = "sorted"
  /\ Len(alerts) = 3
  /\ alerts[1].eventId = 3
  /\ alerts[2].eventId = 2
  /\ alerts[3].eventId = 1
  /\ alerts[1].windowSeconds = alerts[2].windowSeconds
  /\ alerts[1].openedAt > alerts[2].openedAt

(***************************************************************************)
(* buildAvailabilityInsights: the top hosts and the top incidents          *)
(***************************************************************************)

MAX_INSIGHT_ITEMS == 5

\* the entries of a group's hostDowntime or alertImpact map
MaxInsightEntries == 6

\* total and business downtime of an entry, in seconds
ImpactInputs ==
  {[total |-> 0, business |-> 0], [total |-> 1, business |-> 0],
   [total |-> 2, business |-> 1], [total |-> 2, business |-> 2]}

\* the values of acc.hostDowntime, in the order of the Map
HostImpactInputs ==
  [1..MaxInsightEntries -> ImpactInputs]

\* the values of acc.alertImpact with the type of their trigger
AlertImpactInputs ==
  [1..MaxInsightEntries ->
     [impact : ImpactInputs \ {[total |-> 1, business |-> 0]},
      alertType : {"ICMP", "HTTP"}]]

windowKey(windowType) ==
  IF windowType = "business" THEN "business" ELSE "total"

\* the comparator (a, b) => b[windowKey] - a[windowKey] turned around
compareImpactAscending(a, b, key) == a.impact[key] - b.impact[key]

\* the comparator (a, b) => b[windowKey] - a[windowKey]
compareImpact(a, b, key) == b.impact[key] - a.impact[key]

\* Array.prototype.sort with compareImpact: a stable sort
RECURSIVE InsertImpact(_, _, _)
InsertImpact(sorted, entry, key) ==
  IF sorted = << >> THEN <<entry>>
  ELSE IF compareImpact(entry, Head(sorted), key) < 0
       THEN <<entry>> \o sorted
       ELSE <<Head(sorted)>> \o InsertImpact(Tail(sorted), entry, key)

RECURSIVE SortImpact(_, _)
SortImpact(list, key) ==
  IF list = << >> THEN << >>
  ELSE InsertImpact(SortImpact(SubSeq(list, 1, Len(list) - 1), key),
                    list[Len(list)], key)

\* the entries of a map as a list with their keys
Entries(map, type) ==
  [i \in DOMAIN map |->
     [id |-> i, impact |-> IF type = "host" THEN map[i] ELSE map[i].impact,
      alertType |-> IF type = "host" THEN "none" ELSE map[i].alertType]]

\* the list cut one entry past MAX_INSIGHT_ITEMS
topItemsOneMore(list) == slice(list, 0, MAX_INSIGHT_ITEMS + 1)

\* .slice(0, MAX_INSIGHT_ITEMS)
topItems(list) == slice(list, 0, MAX_INSIGHT_ITEMS)

\* topHosts: filter, sort, slice
topHosts(hostDowntimeMap, windowType) ==
  LET key == windowKey(windowType)
      positive(entry) == entry.impact[key] > 0
  IN topItems(SortImpact(SelectSeq(Entries(hostDowntimeMap, "host"),
                                   positive), key))

\* topAlerts: filter, sort, map to null what filterAlertType rejects,
\* filter the nulls, slice
topAlerts(alertImpactMap, windowType, filtered) ==
  LET key == windowKey(windowType)
      positive(entry) == entry.impact[key] > 0
      kept(entry) == ~filtered \/ isReachabilityAlertType(entry.alertType)
  IN topItems(SelectSeq(SortImpact(SelectSeq(
                 Entries(alertImpactMap, "alert"), positive), key), kept))

InitInsight ==
  /\ AggInit("insights")
  /\ KpiInit
  /\ ClassInit
  /\ ReachInit
  /\ ReqInit
  /\ CallInit
  /\ PeriodInit
  /\ PageInit
  /\ FetchInit
  /\ SplitInit
  /\ insightPc = "call"
  /\ insightArgs = [windowType |-> "none"]
  /\ insights = << >>

InsightUnchanged ==
  UNCHANGED <<aggVars, kpiVars, classVars, reachVars, reqVars, callVars,
              periodVars, pageVars, fetchVars,
              splitVars>>

\* buildAvailabilityInsights, its topHosts
RankHosts ==
  /\ insightPc = "call"
  /\ \E map \in HostImpactInputs, windowType \in {"business", "overall"} :
       /\ insightArgs' = [windowType |-> windowType, list |-> "topHosts",
                          map |-> map, filtered |-> FALSE]
       /\ insights' = topHosts(map, windowType)
  /\ insightPc' = "returned"
  /\ InsightUnchanged

\* buildAvailabilityInsights, its topAlerts, with or without
\* filterAlertType
RankAlerts ==
  /\ insightPc = "call"
  /\ \E map \in AlertImpactInputs, windowType \in {"business", "overall"},
        filtered \in BOOLEAN :
       /\ insightArgs' = [windowType |-> windowType, list |-> "topAlerts",
                          map |-> map, filtered |-> filtered]
       /\ insights' = topAlerts(map, windowType, filtered)
  /\ insightPc' = "returned"
  /\ InsightUnchanged

NextInsight == RankHosts \/ RankAlerts

InsightSpec == InitInsight /\ [][NextInsight]_vars

\* the entries of the map given that may be listed, with their downtime
\* in the window
Candidates ==
  LET key == windowKey(insightArgs.windowType)
      type == IF insightArgs.list = "topHosts" THEN "host" ELSE "alert"
      entries == Entries(insightArgs.map, type)
  IN {[id |-> entries[i].id, window |-> entries[i].impact[key]] :
        i \in {j \in DOMAIN entries :
                 /\ entries[j].impact[key] > 0
                 /\ (insightArgs.filtered =>
                       isReachabilityAlertType(entries[j].alertType))}}

Listed ==
  LET key == windowKey(insightArgs.windowType)
  IN [i \in DOMAIN insights |->
        [id |-> insights[i].id, window |-> insights[i].impact[key]]]

\* C25: a list of top hosts or top incidents holds at most 5 entries,
\* each a host or eligible incident of the group with positive in-window
\* downtime, listed once, in descending order of that downtime; and none
\* that is left out has more of it than one that is listed, nor is any
\* left out while the list has room.
C25_TopItems ==
  insightPc = "returned" =>
    /\ Len(Listed) <= 5
    /\ \A i \in DOMAIN Listed : Listed[i] \in Candidates
    /\ \A i, j \in DOMAIN Listed : i < j =>
         /\ Listed[i].id # Listed[j].id
         /\ Listed[i].window >= Listed[j].window
    /\ \A c \in Candidates :
         (\A i \in DOMAIN Listed : Listed[i].id # c.id) =>
           /\ Len(Listed) = 5
           /\ \A i \in DOMAIN Listed : Listed[i].window >= c.window

\* six incidents with downtime in the window, one of them not eligible:
\* the five eligible ones are listed
C25_Witness ==
  /\ insightPc = "returned"
  /\ insightArgs.list = "topAlerts"
  /\ insightArgs.filtered
  /\ Cardinality(Candidates) = 5
  /\ Len(insights) = 5
  /\ insightArgs.windowType = "business"
  /\ insights[1].impact.business > insights[5].impact.business

(***************************************************************************)
(* fetchProblems: paging backward in time                                  *)
(***************************************************************************)

\* the most problem events the backend holds inside the window
MaxEvents == 3

\* the values ZABBIX_PROBLEM_LIMIT and ZABBIX_PROBLEM_MAX_PAGES are given
PageLimitInputs == 1..2

MaxPagesInputs == 1..3

\* the time_from of a call: the ticks of the page requests lie after the
\* epoch, no event of a window has clock 0
TimeFromInputs == {startSeconds, startSeconds + 1}

\* the event sets of the backend: ids 1..n from the oldest id on, clocks
\* inside [timeFrom, timeTill]
BackendInputs(timeFrom, timeTill) ==
  UNION {[1..n -> timeFrom..timeTill] : n \in 0..MaxEvents}

\* event.get with time_from, time_till, limit, sortfield clock, sortorder
\* DESC: the `limit` newest events of the window; which of the events
\* that share the oldest clock of the page come with it is the backend's
\* choice
Batches(timeFrom, timeTill, limit) ==
  LET matching == {id \in DOMAIN backend :
                     backend[id] >= timeFrom /\ backend[id] <= timeTill}
      size == Min(limit, Cardinality(matching))
  IN {batch \in SUBSET matching :
        /\ Cardinality(batch) = size
        /\ \A taken \in batch, left \in matching \ batch :
             backend[taken] >= backend[left]}

\* the ids of a batch as a list, newest first
RECURSIVE BatchList(_)
BatchList(batch) ==
  IF batch = {} THEN << >>
  ELSE LET first == CHOOSE id \in batch :
                      \A other \in batch :
                        \/ backend[id] > backend[other]
                        \/ backend[id] = backend[other] /\ id >= other
       IN <<first>> \o BatchList(batch \ {first})

\* Math.min(...batch.map((problem) => Number(problem.clock) ||
\* cursorTimeTill)) for a batch that is not empty
oldestClockOf(batch) ==
  LET clockOr(id) == IF backend[id] = 0 THEN cursorTimeTill
                     ELSE backend[id]
  IN CHOOSE c \in {clockOr(id) : id \in batch} :
       \A id \in batch : c <= clockOr(id)

\* the next cursor on the oldest clock itself
nextCursorOnOldest(oldestClock) == oldestClock

\* const nextCursor = oldestClock - 1
nextCursorOf(oldestClock) == oldestClock - 1

InitFetch ==
  /\ AggInit("fetchProblems")
  /\ KpiInit
  /\ ClassInit
  /\ ReachInit
  /\ ReqInit
  /\ CallInit
  /\ PeriodInit
  /\ PageInit
  /\ InsightInit
  /\ SplitInit
  /\ fetchArgs \in [timeFrom : TimeFromInputs,
                    timeTill : {endSeconds},
                    pageSize : PageLimitInputs,
                    maxPages : MaxPagesInputs]
  /\ backend \in BackendInputs(fetchArgs.timeFrom, fetchArgs.timeTill)
  /\ fetchPc = "loop"
  /\ cursorTimeTill = fetchArgs.timeTill
  /\ fetchPage = 0
  /\ all = << >>
  /\ requestLog = << >>

FetchUnchanged ==
  UNCHANGED <<aggVars, kpiVars, classVars, reachVars, reqVars, callVars,
              periodVars, pageVars, insightVars,
              splitVars>>

\* one iteration of `while (page < maxPages)`: the page request, the push
\* and the three tests that break the loop; the loop is left as well when
\* the page count reaches maxPages
FetchPage ==
  /\ fetchPc = "loop"
  /\ IF fetchPage >= fetchArgs.maxPages
     THEN /\ fetchPc' = "returned"
          /\ UNCHANGED <<cursorTimeTill, fetchPage, all, requestLog>>
     ELSE \E batch \in Batches(fetchArgs.timeFrom, cursorTimeTill,
                               fetchArgs.pageSize) :
            LET nextCursor == IF batch = {} THEN 0
                              ELSE nextCursorOf(oldestClockOf(batch))
                short == Cardinality(batch) < fetchArgs.pageSize
                stop == short \/ nextCursor <= fetchArgs.timeFrom
            IN /\ fetchPage' = fetchPage + 1
               /\ all' = all \o BatchList(batch)
               /\ requestLog' =
                    Append(requestLog,
                           [time_till |-> cursorTimeTill,
                            returned |-> Cardinality(batch),
                            nextCursor |-> nextCursor])
               /\ cursorTimeTill' = IF stop THEN cursorTimeTill
                                    ELSE nextCursor
               /\ fetchPc' = IF stop \/ fetchPage' >= fetchArgs.maxPages
                             THEN "returned" ELSE "loop"
  /\ UNCHANGED <<backend, fetchArgs>>
  /\ FetchUnchanged

NextFetch == FetchPage

FetchSpec == InitFetch /\ [][NextFetch]_vars

\* the loop is not suspended for ever: every page request is answered
FetchLiveSpec == FetchSpec /\ WF_vars(FetchPage)

(***************************************************************************)
(* Properties of fetchProblems                                             *)
(***************************************************************************)

\* the request made a full page and left a cursor after timeFrom
GoesOn(entry) ==
  /\ entry.returned = fetchArgs.pageSize
  /\ entry.nextCursor > fetchArgs.timeFrom

C26_Bounded ==
  /\ Len(requestLog) <= fetchArgs.maxPages
  /\ \A i \in 1..(Len(requestLog) - 1) :
       /\ requestLog[i + 1].time_till < requestLog[i].time_till
       /\ requestLog[i + 1].time_till = requestLog[i].nextCursor
       /\ GoesOn(requestLog[i])
  /\ (fetchPc = "loop" /\ requestLog # << >>) =>
       GoesOn(requestLog[Len(requestLog)])

\* C26: fetchProblems terminates; it makes at most maxPages page
\* requests, each after the first with a time_till strictly smaller than
\* the one before, and it makes no further request after a page with
\* fewer than pageSize incidents or a next cursor not after timeFrom.
C26_Terminates ==
  /\ []C26_Bounded
  /\ <>(fetchPc = "returned")

\* three full pages of one incident each, the cursor going down
C26_Witness ==
  /\ fetchPc = "returned"
  /\ fetchArgs.maxPages = 3
  /\ Len(requestLog) = 3
  /\ requestLog[3].time_till < requestLog[2].time_till
  /\ requestLog[2].time_till < requestLog[1].time_till

\* the loop made as many page requests as the ceiling allows
CeilingReached ==
  /\ fetchPc = "returned"
  /\ Len(requestLog) = fetchArgs.maxPages

Occurrences(id) == Cardinality({i \in DOMAIN all : all[i] = id})

\* C27: when the page ceiling is not reached, fetchProblems returns every
\* incident whose clock lies in [timeFrom, timeTill] exactly once.
C27_EveryIncidentOnce ==
  (fetchPc = "returned" /\ ~CeilingReached) =>
    \A id \in DOMAIN backend : Occurrences(id) = 1

\* no incident is returned on two pages
C27_NoIncidentTwice ==
  \A id \in DOMAIN backend : Occurrences(id) <= 1

(***************************************************************************)
(* splitSecondsByShift, one loop iteration at a time                       *)
(***************************************************************************)

\* the last tick an interval to split may end at
MaxSplitEnd == 5

NaN == [nan |-> TRUE, val |-> 0]

Num(n) == [nan |-> FALSE, val |-> n]

\* SHIFT_STEP_MS = Number(DASHBOARD_SHIFT_STEP_MINUTES ?? "5") * 60 * 1000
\* for the values the variable may be given: a text that is no number,
\* 0, and positive numbers
ShiftStepInputs == {NaN, Num(0), Num(1), Num(2)}

\* a + b, Math.min(a, b) and a < b on numbers that may be NaN
Plus(a, b) == IF a.nan \/ b.nan THEN NaN ELSE Num(a.val + b.val)

MathMin(a, b) ==
  IF a.nan \/ b.nan THEN NaN ELSE Num(Min(a.val, b.val))

LessThan(a, b) == ~a.nan /\ ~b.nan /\ a.val < b.val

InitSplit ==
  /\ AggInit("split")
  /\ KpiInit
  /\ ClassInit
  /\ ReachInit
  /\ ReqInit
  /\ CallInit
  /\ PeriodInit
  /\ PageInit
  /\ InsightInit
  /\ FetchInit
  /\ splitArgs \in [start : 0..MaxSplitEnd, end : 0..MaxSplitEnd,
                    step : ShiftStepInputs]
  /\ splitPc = "call"
  /\ splitCursor = Num(0)
  /\ buckets = [nan |-> FALSE, business |-> 0, off |-> 0]

SplitUnchanged ==
  UNCHANGED <<aggVars, kpiVars, classVars, reachVars, reqVars, callVars,
              periodVars, pageVars, insightVars, fetchVars>>

\* the entry: the early return on an empty interval, else cursor = start
EnterSplit ==
  /\ splitPc = "call"
  /\ IF splitArgs.end <= splitArgs.start
     THEN /\ splitPc' = "returned"
          /\ UNCHANGED splitCursor
     ELSE /\ splitPc' = "loop"
          /\ splitCursor' = Num(splitArgs.start)
  /\ UNCHANGED <<splitArgs, buckets>>
  /\ SplitUnchanged

\* the test `cursor < limit` and, when it holds, one iteration of the body
SplitIterate ==
  /\ splitPc = "loop"
  /\ LET limit == Num(splitArgs.end)
     IN IF LessThan(splitCursor, limit)
        THEN LET next == MathMin(Plus(splitCursor, splitArgs.step), limit)
                 duration == Plus(next, Num(0 - splitCursor.val))
             IN /\ buckets' =
                     IF duration.nan
                     THEN [buckets EXCEPT !.nan = TRUE]
                     ELSE IF isBusiness(splitCursor.val)
                     THEN [buckets EXCEPT
                             !.business = @ + duration.val]
                     ELSE [buckets EXCEPT !.off = @ + duration.val]
                /\ splitCursor' = next
                /\ UNCHANGED splitPc
        ELSE /\ splitPc' = "returned"
             /\ UNCHANGED <<splitCursor, buckets>>
  /\ UNCHANGED splitArgs
  /\ SplitUnchanged

NextSplit == EnterSplit \/ SplitIterate

SplitSpec == InitSplit /\ [][NextSplit]_vars

\* the loop is scheduled as long as it has a step to take
SplitLiveSpec == SplitSpec /\ WF_vars(NextSplit)

\* C28: for every interval with end > start and every configured step,
\* also 0 and not-a-number, an iteration of the loop moves the cursor
\* forward by a positive amount, towards the interval end.
C28_CursorAdvances ==
  (splitPc = "loop" /\ LessThan(splitCursor, Num(splitArgs.end))) =>
    LET next == MathMin(Plus(splitCursor, splitArgs.step),
                        Num(splitArgs.end))
    IN ~next.nan /\ next.val > splitCursor.val

\* C28 as termination: every call returns
C28_Terminates == <>(splitPc = "returned")

\* the same for the positive steps
C28_PositiveStepAdvances ==
  (~splitArgs.step.nan /\ splitArgs.step.val > 0) => C28_CursorAdvances

\* a step that is not a number: the loop is left after one iteration, the
\* sums are not numbers
C28_NaNStepReturnsNaN ==
  (splitArgs.step.nan /\ splitPc = "returned"
     /\ splitArgs.end > splitArgs.start) => buckets.nan

(***************************************************************************)
(* Reachability downtime against overall downtime                          *)
(***************************************************************************)

\* C29: for every host the reachability downtime does not exceed the
\* overall downtime of the same bucket: total, business and off.
C29_ReachabilityWithinOverall ==
  pc = "reachDone" =>
    \A h \in Hosts :
      /\ reachabilityHostDowntime[h].total <= hostDowntime[h].total
      /\ reachabilityHostDowntime[h].business <= hostDowntime[h].business
      /\ reachabilityHostDowntime[h].off <= hostDowntime[h].off

\* the same for the total bucket alone
C29_ReachabilityTotalWithinOverall ==
  pc = "reachDone" =>
    \A h \in Hosts :
      reachabilityHostDowntime[h].total <= hostDowntime[h].total

(***************************************************************************)
(* The global totals of buildDashboardMetrics                              *)
(***************************************************************************)

\* C30: the global alert total is the number of distinct incidents whose
\* start clock lies inside the period, the global open total the number of
\* those without a recovery event, also for an incident listing several
\* hosts; the alert total equals the sum of the global severity histogram.
C30_GlobalTotalsDistinct ==
  pc = "done" =>
    LET openInside(p) == startsInsideRange(p) /\ isOpen(p)
    IN /\ metrics.groupTotals.alerts = Cardinality(Visited(startsInsideRange))
       /\ metrics.groupTotals.openAlerts = Cardinality(Visited(openInside))
       /\ metrics.groupTotals.alerts
            = SumOver(metrics.severitySummary, SEVERITY_LEVELS)

\* the global totals count an incident once for every host it lists
C30_GlobalTotalsPerHost ==
  pc = "done" =>
    LET listedInside(h) ==
          {i \in Visited(startsInsideRange) : h \in problems[i].hosts}
        openListed(h) == {i \in listedInside(h) : isOpen(problems[i])}
        alertsOf == [h \in Hosts |-> Cardinality(listedInside(h))]
        openOf == [h \in Hosts |-> Cardinality(openListed(h))]
    IN /\ metrics.groupTotals.alerts = SumOver(alertsOf, Hosts)
       /\ metrics.groupTotals.openAlerts = SumOver(openOf, Hosts)
====
